---- MODULE Spec2Model ----
(***************************************************************************)
(* Job lifecycle of the InboxV3 document service: the ingestion endpoints  *)
(* of main.py, the storage adapter of job_service.py and the polling       *)
(* worker of worker.py, as one state machine over the inbox_jobs table and *)
(* the inbox-files bucket.                                                 *)
(***************************************************************************)
EXTENDS Integers, Sequences, FiniteSets, TLC

\* ------------------------------------------------------------------ bounds
MaxJobs == 1
NumWorkers == 2
MaxFiles == 2
NumCallers == 1
MaxFaults == 1
WorkersFiles == 1
NumClaimers == 3

\* ------------------------------------------------------- program constants
max_retries == 3
max_file_data_retries == 10
PollLimit == 10
DispatchLimit == 3

JobIds == 1..MaxJobs
Workers == 1..NumWorkers
Callers == 1..NumCallers

\* ------------------------------------------------------------- JobStatus
CREATED == "created"
READY == "ready"
PROCESSING == "processing"
COMPLETED == "completed"
FAILED == "failed"

\* The members of the JobStatus enumeration; looking up any other member
\* (JobStatus.PENDING) raises AttributeError.
JobStatus ==
  [CREATED |-> CREATED, READY |-> READY, PROCESSING |-> PROCESSING,
   COMPLETED |-> COMPLETED, FAILED |-> FAILED]

\* ------------------------------------------------------- Python values
\* A value is tagged with its type; strings are sequences of characters.
PyNone == [t |-> "none", v |-> <<>>]
PyStr(cs) == [t |-> "str", v |-> cs]
PyInt(n) == [t |-> "int", v |-> n]
PyList(xs) == [t |-> "list", v |-> xs]
PyDict(f) == [t |-> "dict", v |-> f]

\* Optional arguments and nullable columns: <<>> is None, <<x>> is x.
None == <<>>
Some(x) == <<x>>

Digit(n) ==
  CASE n = 0 -> "0" [] n = 1 -> "1" [] n = 2 -> "2" [] n = 3 -> "3"
    [] n = 4 -> "4" [] n = 5 -> "5" [] n = 6 -> "6" [] n = 7 -> "7"
    [] n = 8 -> "8" [] OTHER -> "9"

\* Name of the i-th uploaded file of a request.
UploadName(i) == <<(IF i = 1 THEN "a" ELSE IF i = 2 THEN "b" ELSE "c")>>


\* ------------------------------------------------------------------ json
\* Characters are one-character strings; LF, TAB, CR, BS and FF stand for the
\* control characters.
Chars_filename == <<"f", "i", "l", "e", "n", "a", "m", "e">>
Chars_file_path == <<"f", "i", "l", "e", "_", "p", "a", "t", "h">>
Chars_storage_url == <<"s", "t", "o", "r", "a", "g", "e", "_", "u", "r", "l">>
Chars_suffix == <<"s", "u", "f", "f", "i", "x">>
Chars_size == <<"s", "i", "z", "e">>

\* Key order in which a dict built by the code is written out.
KeyOrder ==
  <<Chars_filename, Chars_file_path, Chars_storage_url, Chars_suffix, Chars_size>>

JsonWhitespace == {" ", "LF", "TAB", "CR"}
JsonDigits == {"0", "1", "2", "3", "4", "5", "6", "7", "8", "9"}
ControlChars == {"LF", "TAB", "CR", "BS", "FF"}

DigitValue(c) ==
  CASE c = "0" -> 0 [] c = "1" -> 1 [] c = "2" -> 2 [] c = "3" -> 3
    [] c = "4" -> 4 [] c = "5" -> 5 [] c = "6" -> 6 [] c = "7" -> 7
    [] c = "8" -> 8 [] OTHER -> 9

\* A parse step: ok, the value read, and the index after it.
Parsed(val, next) == [ok |-> TRUE, val |-> val, next |-> next]
ParseError == [ok |-> FALSE, val |-> PyNone, next |-> 0]

RECURSIVE SkipWhitespace(_, _)
SkipWhitespace(s, i) ==
  IF i <= Len(s) /\ s[i] \in JsonWhitespace THEN SkipWhitespace(s, i + 1) ELSE i

\* The escape sequences of a JSON string: the character after the backslash
\* and the character it stands for (\u is not modelled).
Unescaped(e) ==
  CASE e = "n" -> "LF" [] e = "t" -> "TAB" [] e = "r" -> "CR"
    [] e = "b" -> "BS" [] e = "f" -> "FF" [] OTHER -> e

\* The least and the middle element of a set of indices.
SetMin(S) == CHOOSE x \in S : \A y \in S : x <= y
Median(S) == CHOOSE x \in S : Cardinality({y \in S : y < x}) = Cardinality(S) \div 2

\* The number of consecutive characters a that end just before index k, not
\* looking before index lo.
RECURSIVE RunBefore(_, _, _, _)
RunBefore(s, lo, k, a) ==
  IF k > lo /\ s[k - 1] = a THEN 1 + RunBefore(s, lo, k - 1, a) ELSE 0

\* py_scanstring: the quotes that can end a string starting at index i (those
\* not escaped), and the backslashes of lo..hi that start an escape sequence.
StringEnds(s, i) ==
  {k \in i..Len(s) : s[k] = "\"" /\ RunBefore(s, i, k, "\\") % 2 = 0}

EscapeStarts(s, lo, hi) ==
  {p \in lo..hi : s[p] = "\\" /\ RunBefore(s, lo, p, "\\") % 2 = 0}

\* The characters of lo..hi with every escape sequence replaced by the
\* character it stands for.
RECURSIVE Unescape(_, _, _, _)
RECURSIVE UnescapeAt(_, _, _, _, _)
Unescape(s, lo, hi, starts) ==
  IF \A p \in starts : p < lo \/ p > hi THEN SubSeq(s, lo, hi)
  ELSE UnescapeAt(s, lo, hi, starts, Median({p \in starts : lo <= p /\ p <= hi}))

UnescapeAt(s, lo, hi, starts, m) ==
  Unescape(s, lo, m - 1, starts) \o <<Unescaped(s[m + 1])>>
    \o Unescape(s, m + 2, hi, starts)

\* py_scanstring, strict: the string whose closing quote is at index k. A
\* control character or an unknown escape sequence is an error.
ScanBody(s, i, k) ==
  IF \/ \E p \in i..(k - 1) : s[p] \in ControlChars
     \/ \E p \in EscapeStarts(s, i, k - 1) :
          s[p + 1] \notin {"\"", "\\", "/", "n", "t", "r", "b", "f"}
  THEN ParseError
  ELSE Parsed(PyStr(Unescape(s, i, k - 1, EscapeStarts(s, i, k - 1))), k + 1)

\* py_scanstring: s[i] is the first character after the opening quote.
ScanString(s, i) ==
  IF StringEnds(s, i) = {} THEN ParseError
  ELSE ScanBody(s, i, SetMin(StringEnds(s, i)))

RECURSIVE ScanDigits(_, _, _)
ScanDigits(s, i, n) ==
  IF i <= Len(s) /\ s[i] \in JsonDigits
  THEN ScanDigits(s, i + 1, 10 * n + DigitValue(s[i]))
  ELSE Parsed(PyInt(n), i)

\* Does s hold the characters of lit from index i on?
HasLiteral(s, i, lit) ==
  /\ i + Len(lit) - 1 <= Len(s)
  /\ \A k \in 1..Len(lit) : s[i + k - 1] = lit[k]

RECURSIVE ScanValue(_, _)
RECURSIVE ScanArray(_, _, _)
RECURSIVE ScanObject(_, _, _)

\* scan_once: the value starting at index i.
ScanValue(s, i) ==
  IF i > Len(s) THEN ParseError
  ELSE IF s[i] = "\"" THEN ScanString(s, i + 1)
  ELSE IF s[i] = "[" THEN
    LET j == SkipWhitespace(s, i + 1) IN
    IF j <= Len(s) /\ s[j] = "]" THEN Parsed(PyList(<<>>), j + 1)
    ELSE ScanArray(s, j, <<>>)
  ELSE IF s[i] = "{" THEN
    LET j == SkipWhitespace(s, i + 1) IN
    IF j <= Len(s) /\ s[j] = "}" THEN Parsed(PyDict(<<>>), j + 1)
    ELSE ScanObject(s, j, <<>>)
  ELSE IF s[i] \in JsonDigits THEN ScanDigits(s, i, 0)
  ELSE IF HasLiteral(s, i, <<"n", "u", "l", "l">>) THEN Parsed(PyNone, i + 4)
  ELSE ParseError

\* JSONArray: i is the start of the next element.
ScanArray(s, i, acc) ==
  LET r == ScanValue(s, i) IN
  IF ~r.ok THEN ParseError
  ELSE LET j == SkipWhitespace(s, r.next)
           xs == Append(acc, r.val) IN
       IF j > Len(s) THEN ParseError
       ELSE IF s[j] = "]" THEN Parsed(PyList(xs), j + 1)
       ELSE IF s[j] = "," THEN ScanArray(s, SkipWhitespace(s, j + 1), xs)
       ELSE ParseError

\* JSONObject: i is the start of the next key; a repeated key keeps its last value.
ScanObject(s, i, acc) ==
  IF i > Len(s) \/ s[i] # "\"" THEN ParseError
  ELSE LET k == ScanString(s, i + 1) IN
       IF ~k.ok THEN ParseError
       ELSE LET c == SkipWhitespace(s, k.next) IN
            IF c > Len(s) \/ s[c] # ":" THEN ParseError
            ELSE LET r == ScanValue(s, SkipWhitespace(s, c + 1)) IN
                 IF ~r.ok THEN ParseError
                 ELSE LET j == SkipWhitespace(s, r.next)
                          d == (k.val.v :> r.val) @@ acc IN
                      IF j > Len(s) THEN ParseError
                      ELSE IF s[j] = "}" THEN Parsed(PyDict(d), j + 1)
                      ELSE IF s[j] = ","
                        THEN ScanObject(s, SkipWhitespace(s, j + 1), d)
                      ELSE ParseError

\* json.loads(s): one value between optional whitespace; anything else, trailing
\* data included, is a JSONDecodeError (ok = FALSE).
json_loads(s) ==
  LET r == ScanValue(s, SkipWhitespace(s, 1)) IN
  IF ~r.ok THEN ParseError
  ELSE IF SkipWhitespace(s, r.next) # Len(s) + 1 THEN ParseError
  ELSE r

RECURSIVE IntChars(_)
IntChars(n) == IF n < 10 THEN <<Digit(n)>> ELSE Append(IntChars(n \div 10), Digit(n % 10))

\* encode_basestring: the characters of a string between its quotes.
EscapeChar(c) ==
  CASE c = "\"" -> <<"\\", "\"">>
    [] c = "\\" -> <<"\\", "\\">>
    [] c = "LF" -> <<"\\", "n">>
    [] c = "TAB" -> <<"\\", "t">>
    [] c = "CR" -> <<"\\", "r">>
    [] c = "BS" -> <<"\\", "b">>
    [] c = "FF" -> <<"\\", "f">>
    [] OTHER -> <<c>>

\* Plain characters are copied up to the next one that needs a backslash.
RECURSIVE EscapeString(_)
EscapeString(cs) ==
  IF \A k \in 1..Len(cs) : cs[k] \notin {"\"", "\\"} \cup ControlChars THEN cs
  ELSE IF Len(cs) = 1 THEN EscapeChar(cs[1])
  ELSE EscapeString(SubSeq(cs, 1, Len(cs) \div 2))
         \o EscapeString(SubSeq(cs, Len(cs) \div 2 + 1, Len(cs)))

RECURSIVE json_dumps(_)
RECURSIVE DumpItems(_)
RECURSIVE DumpPairs(_, _)

\* The items of a list, separated by ", ".
DumpItems(xs) ==
  IF xs = <<>> THEN <<>>
  ELSE json_dumps(Head(xs))
       \o (IF Len(xs) > 1 THEN <<",", " ">> \o DumpItems(Tail(xs)) ELSE <<>>)

\* The "key": value pairs of dict d for the keys in ks, in that order.
DumpPairs(d, ks) ==
  IF ks = <<>> THEN <<>>
  ELSE <<"\"">> \o EscapeString(Head(ks)) \o <<"\"", ":", " ">>
       \o json_dumps(d[Head(ks)])
       \o (IF Len(ks) > 1 THEN <<",", " ">> \o DumpPairs(d, Tail(ks)) ELSE <<>>)

\* json.dumps(value) with the default separators.
json_dumps(x) ==
  CASE x.t = "none" -> <<"n", "u", "l", "l">>
    [] x.t = "int" -> IntChars(x.v)
    [] x.t = "str" -> <<"\"">> \o EscapeString(x.v) \o <<"\"">>
    [] x.t = "list" -> <<"[">> \o DumpItems(x.v) \o <<"]">>
    [] OTHER ->
         <<"{">>
         \o DumpPairs(x.v, SelectSeq(KeyOrder, LAMBDA k : k \in DOMAIN x.v))
         \o <<"}">>

\* ------------------------------------------------------- Python strings
PyWhitespace == {" ", "LF", "TAB", "CR", "FF"}

\* str.strip()
RECURSIVE StripLeft(_)
StripLeft(cs) ==
  IF cs # <<>> /\ Head(cs) \in PyWhitespace THEN StripLeft(Tail(cs)) ELSE cs

RECURSIVE StripRight(_)
StripRight(cs) ==
  IF cs # <<>> /\ cs[Len(cs)] \in PyWhitespace
  THEN StripRight(SubSeq(cs, 1, Len(cs) - 1)) ELSE cs

Strip(cs) == StripRight(StripLeft(cs))

\* str.replace: the characters of lo..hi with the two characters at every index
\* of found replaced by c.
RECURSIVE ReplaceIn(_, _, _, _, _)
RECURSIVE ReplaceAt(_, _, _, _, _, _)
ReplaceIn(cs, lo, hi, found, c) ==
  IF \A k \in found : k < lo \/ k > hi THEN SubSeq(cs, lo, hi)
  ELSE ReplaceAt(cs, lo, hi, found, c, Median({k \in found : lo <= k /\ k <= hi}))

ReplaceAt(cs, lo, hi, found, c, m) ==
  ReplaceIn(cs, lo, m - 1, found, c) \o <<c>> \o ReplaceIn(cs, m + 2, hi, found, c)

\* str.replace(<<a, b>>, <<c>>): every non-overlapping occurrence, left to right
\* (of a run of equal characters, every second pair).
Replace2(cs, a, b, c) ==
  ReplaceIn(cs, 1, Len(cs),
            {k \in 1..(Len(cs) - 1) :
               /\ cs[k] = a /\ cs[k + 1] = b
               /\ a = b => RunBefore(cs, 1, k, a) % 2 = 0},
            c)

\* Path(p).name: the last component of p, trailing slashes ignored.
RECURSIVE DropTrailingSlashes(_)
DropTrailingSlashes(cs) ==
  IF cs # <<>> /\ cs[Len(cs)] = "/"
  THEN DropTrailingSlashes(SubSeq(cs, 1, Len(cs) - 1)) ELSE cs

PathName(p) ==
  LET q == DropTrailingSlashes(p)
      slashes == {k \in 1..Len(q) : q[k] = "/"} IN
  IF slashes = {} THEN q
  ELSE LET last == CHOOSE x \in slashes : \A y \in slashes : y <= x IN
       SubSeq(q, last + 1, Len(q))

\* Path(name).suffix: from the last dot on, unless the dot starts or ends the name.
PathSuffix(name) ==
  LET dots == {k \in 1..Len(name) : name[k] = "."} IN
  IF dots = {} THEN <<>>
  ELSE LET i == CHOOSE x \in dots : \A y \in dots : y <= x IN
       IF 1 < i /\ i < Len(name) THEN SubSeq(name, i, Len(name)) ELSE <<>>

\* bool(x)
Truthy(x) ==
  CASE x.t = "none" -> FALSE
    [] x.t = "int" -> x.v # 0
    [] x.t = "str" -> x.v # <<>>
    [] x.t = "list" -> x.v # <<>>
    [] OTHER -> DOMAIN x.v # {}

\* ---------------------------------------------------------- job_service
\* create_job: the inserted row.
create_job(endpoint_type, total_files, user_id, status, now) ==
  [status |-> status,
   endpoint_type |-> endpoint_type,
   progress |-> 0,
   total_files |-> total_files,
   processed_files |-> 0,
   result |-> None,
   error |-> None,
   user_id |-> user_id,
   created_at |-> now,
   file_storage_urls |-> PyNone,
   file_urls |-> PyNone,
   file_data |-> PyNone]

\* update_job_status, were every argument written, None included.
update_job_status_writes_none(rows, job_id, status, result, error, progress, processed_files, ok) ==
  IF ~ok \/ job_id \notin DOMAIN rows THEN rows
  ELSE [rows EXCEPT ![job_id] =
         [@ EXCEPT !.status = status,
                   !.result = result,
                   !.error = error,
                   !.progress = IF progress # None THEN progress[1] ELSE 0,
                   !.processed_files =
                     IF processed_files # None THEN processed_files[1] ELSE 0]]

\* update_job_status as an upsert: a missing row is inserted.
update_job_status_upsert(rows, job_id, status, result, error, progress, processed_files, ok) ==
  IF ~ok THEN rows
  ELSE LET row == IF job_id \in DOMAIN rows THEN rows[job_id]
                  ELSE create_job("classify", 1, None, status, job_id)
       IN (job_id :> [row EXCEPT
                        !.status = status,
                        !.result = IF result # None THEN result ELSE @,
                        !.error = IF error # None THEN error ELSE @,
                        !.progress = IF progress # None THEN progress[1] ELSE @,
                        !.processed_files =
                          IF processed_files # None THEN processed_files[1] ELSE @])
          @@ rows

\* update_job_status: UPDATE ... WHERE id = job_id of the status and of every
\* argument that is not None. ok = FALSE: the request raised and was swallowed.
update_job_status(rows, job_id, status, result, error, progress, processed_files, ok) ==
  IF ~ok \/ job_id \notin DOMAIN rows THEN rows
  ELSE [rows EXCEPT ![job_id] =
         [@ EXCEPT !.status = status,
                   !.result = IF result # None THEN result ELSE @,
                   !.error = IF error # None THEN error ELSE @,
                   !.progress = IF progress # None THEN progress[1] ELSE @,
                   !.processed_files =
                     IF processed_files # None THEN processed_files[1] ELSE @]]

\* get_job without the filter on the owner.
get_job_any_owner(rows, job_id, user_id, ok) ==
  IF ~ok \/ job_id \notin DOMAIN rows THEN None ELSE Some(rows[job_id])

\* get_job: None, or Some(row). A falsy user_id puts no filter on the owner.
get_job(rows, job_id, user_id, ok) ==
  IF ~ok \/ job_id \notin DOMAIN rows THEN None
  ELSE IF user_id # None /\ user_id[1] # <<>> /\ rows[job_id].user_id # user_id
    THEN None
  ELSE Some(rows[job_id])

\* ORDER BY created_at ASC over the ids in S.
RECURSIVE OrderByCreatedAt(_, _)
OrderByCreatedAt(rows, S) ==
  IF S = {} THEN <<>>
  ELSE LET first == CHOOSE x \in S :
                      \A y \in S : \/ rows[x].created_at < rows[y].created_at
                                   \/ /\ rows[x].created_at = rows[y].created_at
                                      /\ x <= y
       IN <<first>> \o OrderByCreatedAt(rows, S \ {first})

\* get_pending_jobs without the filter on the status.
get_pending_jobs_any_status(rows, limit, ok) ==
  IF ~ok THEN <<>>
  ELSE LET ready == OrderByCreatedAt(rows, DOMAIN rows)
       IN SubSeq(ready, 1, IF Len(ready) < limit THEN Len(ready) ELSE limit)

\* get_pending_jobs: the ids of the READY rows, oldest first, at most limit;
\* nothing when the query raises.
get_pending_jobs(rows, limit, ok) ==
  IF ~ok THEN <<>>
  ELSE LET ready == OrderByCreatedAt(rows, {j \in DOMAIN rows : rows[j].status = READY})
       IN SubSeq(ready, 1, IF Len(ready) < limit THEN Len(ready) ELSE limit)

\* claim_job with the status left out of the WHERE clause.
claim_job_matches_any_status(rows, job_id, ok) == ok /\ job_id \in DOMAIN rows

\* claim_job: UPDATE ... SET status = PROCESSING WHERE id = job_id AND
\* status = READY; claimed iff a row matched.
claim_job_matches(rows, job_id, ok) ==
  ok /\ job_id \in DOMAIN rows /\ rows[job_id].status = READY

claim_job(rows, job_id, ok) ==
  IF claim_job_matches(rows, job_id, ok)
  THEN [rows EXCEPT ![job_id].status = PROCESSING]
  ELSE rows

\* Tier 3 of the decode: the text stripped, one pair of surrounding quotes
\* removed, then \" -> ", \n -> LF, \\ -> \.
Unquoted(stripped) ==
  IF stripped # <<>> /\ Head(stripped) = "\"" /\ stripped[Len(stripped)] = "\""
  THEN SubSeq(stripped, 2, Len(stripped) - 1)
  ELSE stripped

Cleaned(text) ==
  Replace2(Replace2(Replace2(Unquoted(Strip(text)), "\\", "\"", "\""),
                    "\\", "n", "LF"),
           "\\", "\\", "\\")

FirstParsed(first, second) ==
  IF first.ok THEN first.val ELSE IF second.ok THEN second.val ELSE PyNone

\* The three decode tiers of the full-metadata column: a value that is not a
\* string is used as it is; a string is parsed with json.loads and, on a
\* JSONDecodeError only, cleaned and parsed again.
DecodeFileStorageUrls(raw) ==
  IF raw.t # "str" THEN raw
  ELSE FirstParsed(json_loads(raw.v), json_loads(Cleaned(raw.v)))

\* The simple-locator column expanded to full references.
RECURSIVE ExpandFileUrls(_)
ExpandFileUrls(paths) ==
  IF paths = <<>> THEN <<>>
  ELSE LET file_path == Head(paths)
           filename == PathName(file_path.v)
       IN (IF Truthy(file_path)
           THEN <<PyDict((Chars_filename :> PyStr(filename))
                         @@ (Chars_file_path :> file_path)
                         @@ (Chars_suffix :> PyStr(PathSuffix(filename)))
                         @@ (Chars_size :> PyNone))>>
           ELSE <<>>)
          \o ExpandFileUrls(Tail(paths))

\* get_file_data, source 1: the full-metadata column decoded.
FullMetadata(job) ==
  IF job.file_storage_urls.t # "none" /\ job.file_storage_urls # PyStr(<<>>)
  THEN DecodeFileStorageUrls(job.file_storage_urls)
  ELSE PyNone

\* get_file_data, source 2: the simple-locator column expanded; a truthy
\* element that is not a string raises inside the try and None is returned.
SimpleLocators(file_urls) ==
  IF file_urls.t = "list" /\ file_urls.v # <<>>
  THEN IF \E k \in 1..Len(file_urls.v) :
            Truthy(file_urls.v[k]) /\ file_urls.v[k].t # "str"
       THEN [raised |-> TRUE, val |-> <<>>]
       ELSE [raised |-> FALSE, val |-> ExpandFileUrls(file_urls.v)]
  ELSE [raised |-> FALSE, val |-> <<>>]

\* get_file_data, source 3: the legacy column, parsed when it is a string.
LegacyFileData(file_data) ==
  IF ~Truthy(file_data) THEN Parsed(PyNone, 0)
  ELSE IF file_data.t = "str" THEN json_loads(file_data.v)
  ELSE Parsed(file_data, 0)

\* The sources tried with the simple-locator column before the full metadata.
FirstSource_simple_first(full, simple, legacy) ==
  IF simple.raised THEN PyNone
  ELSE IF simple.val # <<>> THEN PyList(simple.val)
  ELSE IF full.t = "list" /\ full.v # <<>> THEN full
  ELSE IF ~legacy.ok THEN PyNone
  ELSE IF legacy.val.t = "list" /\ legacy.val.v # <<>> THEN legacy.val
  ELSE PyNone

\* The first source that yields a non-empty list, in the fixed order.
FirstSource(full, simple, legacy) ==
  IF full.t = "list" /\ full.v # <<>> THEN full
  ELSE IF simple.raised THEN PyNone
  ELSE IF simple.val # <<>> THEN PyList(simple.val)
  ELSE IF ~legacy.ok THEN PyNone
  ELSE IF legacy.val.t = "list" /\ legacy.val.v # <<>> THEN legacy.val
  ELSE PyNone

\* get_file_data on a row, were a full-metadata column that is present but
\* yields no list the end of the search.
FileDataOfRow_no_fall_through(job) ==
  IF job.file_storage_urls.t # "none" /\ job.file_storage_urls # PyStr(<<>>)
  THEN FirstSource(FullMetadata(job), [raised |-> FALSE, val |-> <<>>],
                   Parsed(PyNone, 0))
  ELSE FirstSource(PyNone, SimpleLocators(job.file_urls),
                   LegacyFileData(job.file_data))

\* get_file_data on a row: a non-empty list of references, or PyNone.
FileDataOfRow(job) ==
  FirstSource(FullMetadata(job), SimpleLocators(job.file_urls),
              LegacyFileData(job.file_data))

FileDataOf(job) == IF job = None THEN PyNone ELSE FileDataOfRow(job[1])

get_file_data(rows, job_id, ok) == FileDataOf(get_job(rows, job_id, None, ok))

\* store_file_storage_urls: the simple path of one reference, PyNone when
\* the reference is skipped. file_path is preferred to storage_url; of a full
\* URL the part after /object/public/inbox-files/ is kept. The callers pass
\* strings only.
PublicPrefix ==
  <<"/", "o", "b", "j", "e", "c", "t", "/", "p", "u", "b", "l", "i", "c", "/",
    "i", "n", "b", "o", "x", "-", "f", "i", "l", "e", "s", "/">>

Occurrences(cs, sub) == {k \in 1..Len(cs) : HasLiteral(cs, k, sub)}

\* str.split(sub)[1], PyNone when sub does not occur.
SecondPart(cs, sub, at) ==
  IF at = {} THEN PyNone
  ELSE PyStr(SubSeq(cs, SetMin(at) + Len(sub),
                    IF \E k \in at : k >= SetMin(at) + Len(sub)
                    THEN SetMin({k \in at : k >= SetMin(at) + Len(sub)}) - 1
                    ELSE Len(cs)))

PathOrUrl(d) ==
  IF Chars_file_path \in DOMAIN d /\ Truthy(d[Chars_file_path]) THEN d[Chars_file_path]
  ELSE IF Chars_storage_url \in DOMAIN d THEN d[Chars_storage_url]
  ELSE PyNone

SimplePathOf(file_path) ==
  IF ~Truthy(file_path) THEN PyNone
  ELSE IF HasLiteral(file_path.v, 1, <<"h", "t", "t", "p">>)
    THEN SecondPart(file_path.v, PublicPrefix, Occurrences(file_path.v, PublicPrefix))
  ELSE file_path

\* store_file_storage_urls: the two columns written for a list of references.
SimplePaths(file_urls) ==
  SelectSeq([k \in 1..Len(file_urls) |-> SimplePathOf(PathOrUrl(file_urls[k].v))],
            LAMBDA x : x.t # "none")

store_file_storage_urls(rows, job_id, file_urls) ==
  IF job_id \notin DOMAIN rows THEN rows
  ELSE [rows EXCEPT ![job_id].file_storage_urls = PyList(file_urls),
                    ![job_id].file_urls = PyList(SimplePaths(file_urls))]

\* upload_file_to_storage: the storage path of an uploaded file. The stem has
\* every character outside [A-Za-z0-9_.-] replaced by "_" and is cut to 200
\* characters; the extension is kept as it is.
WordChars ==
  {"a", "b", "c", "d", "e", "f", "g", "h", "i", "j", "k", "l", "m", "n", "o",
   "p", "q", "r", "s", "t", "u", "v", "w", "x", "y", "z", "_"} \cup JsonDigits

SanitizeChar(c) == IF c \in WordChars \cup {"-", "."} THEN c ELSE "_"

StemLimit == 200

storage_path(job_id, filename) ==
  LET name == PathName(filename)
      file_extension == PathSuffix(name)
      file_stem == SubSeq(name, 1, Len(name) - Len(file_extension))
      sanitized == [k \in 1..Len(file_stem) |-> SanitizeChar(file_stem[k])]
      sanitized_stem ==
        IF Len(sanitized) > StemLimit THEN SubSeq(sanitized, 1, StemLimit)
        ELSE sanitized
  IN <<Digit(job_id), "/">> \o sanitized_stem \o file_extension

\* The local fallback path of main.py: tempdir/inbox_jobs/job_id/filename.
TempDir == <<"/", "t", "m", "p">>

local_path(job_id, filename) ==
  TempDir \o <<"/", "i", "n", "b", "o", "x", "_", "j", "o", "b", "s", "/">>
  \o <<Digit(job_id), "/">> \o filename

\* The reference main.py appends for an uploaded file.
FileRef(filename, file_path, size) ==
  PyDict((Chars_filename :> PyStr(filename))
         @@ (Chars_file_path :> PyStr(file_path))
         @@ (Chars_suffix :> PyStr(PathSuffix(PathName(filename))))
         @@ (Chars_size :> PyInt(size)))

VARIABLES
  jobs,      \* the inbox_jobs table: job id -> row
  blobs,     \* the inbox-files bucket: set of stored paths
  nextId,    \* number of ids handed out by create_job
  ing,       \* per job: the ingestion request that created it
  wk,        \* per worker: position of worker_loop
  h,         \* per worker and job: the per-job handler task
  adm,       \* per caller: reset_failed_job / delete_job call in flight
  dispatched,\* per job: handler runs started since it last became READY
  faults     \* steps so far at which the environment departed from the plain outcome

vars == <<jobs, blobs, nextId, ing, wk, h, adm, dispatched, faults>>

\* ------------------------------------------------------------- the state
EndpointTypes == {"classify", "analyze"}
UserIds == {None, Some(<<"u">>)}
StorageOutcomes == {TRUE, FALSE}
UploadOutcomes == {"stored", "fallback", "error"}
Exceptions == {"none", "transient", "permanent"}
FileFates ==
  {"unavailable", "extract_raises", "empty_text", "llm_timeout",
   "INBOX", "ARCHIVE", "OTHER"}

IdleIngestion ==
  [kind |-> "none", pc |-> "none", n |-> 0, file_urls |-> <<>>, stored_as |-> "native"]
IdleHandler ==
  [pc |-> "idle", endpoint_type |-> "none", attempt |-> 0, retry_count |-> 0,
   file_data |-> <<>>, fates |-> <<>>, routing_results |-> <<>>, results |-> <<>>,
   llm_calls |-> <<>>, exc |-> "none", raised |-> FALSE, traceback |-> FALSE,
   semaphore |-> [files |-> 0, value |-> 0, pending |-> 0, in_flight |-> 0],
   tasks |-> <<>>]
IdleCaller ==
  [op |-> "none", job |-> 0, pc |-> "idle", ret |-> "none", seen |-> PyNone,
   user_id |-> None]

\* A deployment with one worker instance running.
Init ==
  /\ jobs = <<>>
  /\ blobs = <<>>
  /\ nextId = 0
  /\ ing = [j \in JobIds |-> IdleIngestion]
  /\ wk = [w \in Workers |-> IF w = 1 THEN "poll" ELSE "off"]
  /\ h = [w \in Workers |-> [j \in JobIds |-> IdleHandler]]
  /\ adm = [c \in Callers |-> IdleCaller]
  /\ dispatched = [j \in JobIds |-> 0]
  /\ faults = 0

StatusOf(rows, j) == IF j \in DOMAIN rows THEN rows[j].status ELSE "absent"

\* Handler runs counted per READY episode: the count restarts when a row enters
\* READY and stops growing at DispatchCap.
DispatchCap == 2

Redispatched(rows, rows2, count) ==
  [j \in JobIds |->
     IF StatusOf(rows2, j) = READY /\ StatusOf(rows, j) # READY THEN 0
     ELSE count[j]]

\* ------------------------------------------------------------- ingestion
\* POST /classify-documents-async and /analyze-multiple-async: create_job.
async_create(kind, n, user_id) ==
  /\ nextId < MaxJobs
  /\ LET job_id == nextId + 1 IN
     /\ jobs' = (job_id :> create_job(kind, n, user_id, JobStatus.CREATED, job_id)) @@ jobs
     /\ ing' = [ing EXCEPT ![job_id] =
                  [IdleIngestion EXCEPT !.kind = kind, !.pc = "upload", !.n = n]]
     /\ nextId' = job_id
  /\ UNCHANGED <<blobs, wk, h, adm, dispatched>>

\* The references and the bucket after the upload loop, file by file. A raise
\* is caught per file by classify and ends the loop of analyze.
RECURSIVE UploadLoop(_, _, _, _, _, _)
UploadLoop(kind, job_id, i, n, outcome, acc) ==
  IF i > n \/ (kind = "analyze" /\ acc.raised) THEN acc
  ELSE LET filename == UploadName(i)
           path == storage_path(job_id, filename)
           next ==
             CASE outcome[i] = "stored" ->
                    [file_urls |-> Append(acc.file_urls, FileRef(filename, path, 1)),
                     store |-> (path :> <<job_id, i>>) @@ acc.store,
                     raised |-> acc.raised]
               [] outcome[i] = "fallback" ->
                    [file_urls |->
                       Append(acc.file_urls,
                              FileRef(filename, local_path(job_id, filename), 1)),
                     store |-> acc.store,
                     raised |-> acc.raised]
               [] OTHER -> [acc EXCEPT !.raised = TRUE]
       IN UploadLoop(kind, job_id, i + 1, n, outcome, next)

\* classify: upload_files_background up to the store; a file whose upload and
\* fallback both raise is skipped. analyze: the loop of the request; the same
\* failure ends the request with the row left as it is.
async_upload(j, outcome) ==
  /\ ing[j].pc = "upload"
  /\ LET r == UploadLoop(ing[j].kind, j, 1, ing[j].n, outcome,
                         [file_urls |-> <<>>, store |-> blobs, raised |-> FALSE])
     IN
     /\ blobs' = r.store
     /\ ing' = [ing EXCEPT ![j].file_urls = r.file_urls,
                           ![j].pc =
                             IF ing[j].kind = "analyze"
                             THEN (IF r.raised THEN "aborted" ELSE "store")
                             ELSE (IF r.file_urls # <<>> THEN "store" ELSE "mark_ready")]
  /\ UNCHANGED <<jobs, nextId, wk, h, adm, dispatched>>

\* store_file_storage_urls; when it raises, classify goes on to mark the row
\* FAILED and analyze answers 500.
async_store(j, ok) ==
  /\ ing[j].pc = "store"
  /\ jobs' = IF ok THEN store_file_storage_urls(jobs, j, ing[j].file_urls) ELSE jobs
  /\ ing' = [ing EXCEPT ![j].pc =
               IF ok THEN "mark_ready"
               ELSE IF ing[j].kind = "analyze" THEN "aborted" ELSE "mark_failed"]
  /\ UNCHANGED <<blobs, nextId, wk, h, adm, dispatched>>

\* classify only: update_job_status(FAILED, error="Failed to store file data").
async_mark_failed(j, ok) ==
  /\ ing[j].pc = "mark_failed"
  /\ jobs' = update_job_status(jobs, j, JobStatus.FAILED, None,
                               Some("Failed to store file data"), None, None, ok)
  /\ ing' = [ing EXCEPT ![j].pc = "mark_ready"]
  /\ UNCHANGED <<blobs, nextId, wk, h, adm, dispatched>>

\* update_job_status(READY, progress=0, processed_files=0).
async_mark_ready(j, ok) ==
  /\ ing[j].pc = "mark_ready"
  /\ jobs' = update_job_status(jobs, j, JobStatus.READY, None, None, Some(0), Some(0), ok)
  /\ ing' = [ing EXCEPT ![j].pc = "done"]
  /\ dispatched' = Redispatched(jobs, jobs', dispatched)
  /\ UNCHANGED <<blobs, nextId, wk, h, adm>>

\* ---------------------------------------------------------------- worker
Min(a, b) == IF a < b THEN a ELSE b
Range(seq) == {seq[k] : k \in 1..Len(seq)}
CountOf(seq, P(_)) == Cardinality({k \in 1..Len(seq) : P(seq[k])})

\* int((processed / total_files) * 100). The float product truncates to this
\* integer quotient for every total_files below 50 (the first difference is
\* 29 of 50: 57 for 58); a request holds at most MAX_FILES_PER_REQUEST = 30.
ProgressOf(processed, total_files) == (processed * 100) \div total_files

\* Can the bytes of a reference be fetched: a local path may exist on the
\* worker's disk; a storage path needs its object in the bucket.
Resolvable(file_info, store) ==
  LET d == file_info.v IN
  IF Chars_file_path \in DOMAIN d
  THEN /\ Truthy(d[Chars_file_path])
       /\ d[Chars_file_path].t = "str"
       /\ \/ HasLiteral(d[Chars_file_path].v, 1, TempDir)
          \/ d[Chars_file_path].v \in DOMAIN store
  ELSE /\ Chars_storage_url \in DOMAIN d
       /\ Truthy(d[Chars_storage_url])

\* process_file without its except branch taken into account: a file that
\* raised is reported like a classified one.
process_file_unguarded(endpoint_type, file_info, fate, store) ==
  [filename |-> file_info.v[Chars_filename],
   routing |-> IF endpoint_type = "analyze" THEN "none" ELSE "ARCHIVE",
   status |-> "success", error |-> None]

\* process_file, were the routing of a file that raised or timed out INBOX.
process_file_error_inbox(endpoint_type, file_info, fate, store) ==
  LET filename == file_info.v[Chars_filename]
      outcome == IF Resolvable(file_info, store) THEN fate ELSE "unavailable"
  IN
  CASE outcome \in {"unavailable", "extract_raises", "llm_timeout"} ->
         [filename |-> filename,
          routing |-> IF endpoint_type = "analyze" THEN "none" ELSE "INBOX",
          status |-> "error", error |-> Some(outcome)]
    [] outcome = "empty_text" ->
         [filename |-> filename,
          routing |-> IF endpoint_type = "analyze" THEN "none" ELSE "ARCHIVE",
          status |-> "failed", error |-> Some("No text extracted")]
    [] OTHER ->
         [filename |-> filename,
          routing |-> IF endpoint_type = "analyze" THEN "none" ELSE outcome,
          status |-> "success", error |-> None]

\* process_file: the result of one file. fate is what its bytes, its text and
\* the model call turn out to be.
process_file(endpoint_type, file_info, fate, store) ==
  LET filename == file_info.v[Chars_filename]
      archived == IF endpoint_type = "analyze" THEN "none" ELSE "ARCHIVE"
      outcome == IF Resolvable(file_info, store) THEN fate ELSE "unavailable"
  IN
  CASE outcome \in {"unavailable", "extract_raises", "llm_timeout"} ->
         [filename |-> filename, routing |-> archived, status |-> "error",
          error |-> Some(outcome)]
    [] outcome = "empty_text" ->
         [filename |-> filename, routing |-> archived, status |-> "failed",
          error |-> Some("No text extracted")]
    [] OTHER ->
         [filename |-> filename,
          routing |-> IF endpoint_type = "analyze" THEN "none" ELSE outcome,
          status |-> "success", error |-> None]

\* process_file that sends the text to the model whatever was extracted.
calls_llm_any_text(file_info, fate, store) ==
  Resolvable(file_info, store) /\ fate # "extract_raises"

\* process_file: is the model called for the file. The call comes after the
\* bytes were fetched, the text extracted and found non-blank.
calls_llm(file_info, fate, store) ==
  /\ Resolvable(file_info, store)
  /\ fate \notin {"unavailable", "extract_raises", "empty_text"}

\* The final result of a job, were every file counted as successful.
final_result_all_successful(endpoint_type, results) ==
  IF endpoint_type = "analyze"
  THEN [total_files |-> Len(results), successful |-> Len(results),
        failed |-> 0, results |-> results]
  ELSE [total_files |-> Len(results), successful |-> Len(results),
        failed |-> 0,
        inbox_count |-> CountOf(results, LAMBDA r : r.routing = "INBOX"),
        archive_count |-> CountOf(results, LAMBDA r : r.routing = "ARCHIVE"),
        results |-> results]

\* The final result of a job.
final_result(endpoint_type, results) ==
  LET successful == CountOf(results, LAMBDA r : r.status = "success") IN
  IF endpoint_type = "analyze"
  THEN [total_files |-> Len(results), successful |-> successful,
        failed |-> Len(results) - successful, results |-> results]
  ELSE [total_files |-> Len(results), successful |-> successful,
        failed |-> Len(results) - successful,
        inbox_count |-> CountOf(results, LAMBDA r : r.routing = "INBOX"),
        archive_count |-> CountOf(results, LAMBDA r : r.routing = "ARCHIVE"),
        results |-> results]

\* worker_loop, were a handler created for every listed job.
worker_loop_poll_all(w, ok) ==
  /\ wk[w] = "poll"
  /\ LET pending_jobs == get_pending_jobs(jobs, PollLimit, ok)
         batch == Range(pending_jobs)
     IN
     IF pending_jobs = <<>> THEN UNCHANGED <<wk, h, dispatched>>
     ELSE /\ wk' = [wk EXCEPT ![w] = "gather"]
          /\ h' = [h EXCEPT ![w] =
                     [j \in DOMAIN h[w] |->
                        IF j \in batch
                        THEN [IdleHandler EXCEPT
                                !.pc = "start",
                                !.endpoint_type =
                                  IF jobs[j].endpoint_type = "analyze"
                                  THEN "analyze" ELSE "classify"]
                        ELSE IdleHandler]]
          /\ dispatched' =
               [j \in DOMAIN dispatched |->
                  IF j \in batch THEN Min(dispatched[j] + 1, DispatchCap)
                  ELSE dispatched[j]]
  /\ UNCHANGED <<jobs, blobs, nextId, ing, adm>>

\* worker_loop: one poll. Nothing listed: sleep and poll again. Otherwise a
\* handler task is created for each of the first DispatchLimit listed jobs.
worker_loop_poll(w, ok) ==
  /\ wk[w] = "poll"
  /\ LET pending_jobs == get_pending_jobs(jobs, PollLimit, ok)
         batch == Range(SubSeq(pending_jobs, 1, Min(Len(pending_jobs), DispatchLimit)))
     IN
     IF pending_jobs = <<>> THEN UNCHANGED <<wk, h, dispatched>>
     ELSE /\ wk' = [wk EXCEPT ![w] = "gather"]
          /\ h' = [h EXCEPT ![w] =
                     [j \in DOMAIN h[w] |->
                        IF j \in batch
                        THEN [IdleHandler EXCEPT
                                !.pc = "start",
                                !.endpoint_type =
                                  IF jobs[j].endpoint_type = "analyze"
                                  THEN "analyze" ELSE "classify"]
                        ELSE IdleHandler]]
          /\ dispatched' =
               [j \in DOMAIN dispatched |->
                  IF j \in batch THEN Min(dispatched[j] + 1, DispatchCap)
                  ELSE dispatched[j]]
  /\ UNCHANGED <<jobs, blobs, nextId, ing, adm>>

\* worker_loop, were the exception of a handler task raised out of the gather
\* and out of the loop.
worker_loop_gather_reraises(w) ==
  /\ wk[w] = "gather"
  /\ \A j \in DOMAIN h[w] : h[w][j].pc \in {"idle", "done"}
  /\ wk' = [wk EXCEPT ![w] = IF \E j \in DOMAIN h[w] : h[w][j].raised
                              THEN "off" ELSE "poll"]
  /\ h' = [h EXCEPT ![w] = [j \in DOMAIN h[w] |-> IdleHandler]]
  /\ UNCHANGED <<jobs, blobs, nextId, ing, adm, dispatched>>

\* worker_loop: asyncio.gather(return_exceptions=True) returned, every handler
\* task has ended; a task's exception is logged.
worker_loop_gather(w) ==
  /\ wk[w] = "gather"
  /\ \A j \in DOMAIN h[w] : h[w][j].pc \in {"idle", "done"}
  /\ wk' = [wk EXCEPT ![w] = "poll"]
  /\ h' = [h EXCEPT ![w] = [j \in DOMAIN h[w] |-> IdleHandler]]
  /\ UNCHANGED <<jobs, blobs, nextId, ing, adm, dispatched>>

\* process_*_job: update_job_status(PROCESSING, progress=0).
handler_start(w, j, ok) ==
  /\ h[w][j].pc = "start"
  /\ jobs' = update_job_status(jobs, j, JobStatus.PROCESSING, None, None, Some(0), None, ok)
  /\ h' = [h EXCEPT ![w][j].pc = "get_file_data", ![w][j].attempt = 0]
  /\ UNCHANGED <<blobs, nextId, ing, wk, adm, dispatched>>

\* The handler after one get_file_data call. classify tries again after 2
\* seconds while attempts remain, analyze calls once; without file data both
\* raise ValueError("No file data found for job"). The except clause around
\* the call in process_classify_job imports traceback, which binds the name
\* that is local to the whole function.
AfterGetFileData(me, file_data, exc, again) ==
  IF exc = "none" /\ file_data.t = "list"
    THEN [me EXCEPT !.pc = "init_progress", !.file_data = file_data.v]
  ELSE IF exc = "none" /\ again THEN [me EXCEPT !.attempt = @ + 1]
  ELSE IF exc = "none" THEN [me EXCEPT !.pc = "except", !.exc = "no_file_data"]
  ELSE IF exc = "transient" /\ again
    THEN [me EXCEPT !.attempt = @ + 1, !.traceback = TRUE]
  ELSE [me EXCEPT !.pc = "except", !.exc = exc, !.traceback = TRUE]

\* process_*_job: one get_file_data call. exc is an exception raised at the
\* call.
handler_get_file_data(w, j, ok, exc) ==
  /\ h[w][j].pc = "get_file_data"
  /\ h' = [h EXCEPT ![w][j] =
             AfterGetFileData(h[w][j], get_file_data(jobs, j, ok), exc,
                              /\ h[w][j].endpoint_type = "classify"
                              /\ h[w][j].attempt < max_file_data_retries)]
  /\ UNCHANGED <<jobs, blobs, nextId, ing, wk, adm, dispatched>>

\* process_*_job: update_job_status(PROCESSING, progress=0, processed_files=0),
\* then every file through process_file (asyncio.gather). A reference without
\* a filename makes the handler raise KeyError.
handler_process_files(w, j, ok, fate) ==
  /\ h[w][j].pc = "init_progress"
  /\ LET me == h[w][j]
         keyed == \A k \in 1..Len(me.file_data) :
                    /\ me.file_data[k].t = "dict"
                    /\ Chars_filename \in DOMAIN me.file_data[k].v
     IN
     /\ jobs' = update_job_status(jobs, j, JobStatus.PROCESSING, None, None,
                                  Some(0), Some(0), ok)
     /\ h' = [h EXCEPT ![w][j] =
                IF keyed
                THEN [me EXCEPT
                        !.pc = "progress",
                        !.results = <<>>,
                        !.fates = [k \in 1..Len(me.file_data) |-> fate[k]],
                        !.llm_calls =
                          [k \in 1..Len(me.file_data) |->
                             calls_llm(me.file_data[k], fate[k], blobs)],
                        !.routing_results =
                          [k \in 1..Len(me.file_data) |->
                             process_file(me.endpoint_type, me.file_data[k],
                                          fate[k], blobs)]]
                ELSE [me EXCEPT !.pc = "except", !.exc = "permanent"]]
  /\ UNCHANGED <<blobs, nextId, ing, wk, adm, dispatched>>

\* process_*_job, were a failed progress write raised to the handler.
handler_progress_raises(w, j, ok) ==
  /\ h[w][j].pc = "progress"
  /\ jobs' = jobs
  /\ h' = [h EXCEPT ![w][j].pc = IF ok THEN "progress" ELSE "except",
                    ![w][j].exc = IF ok THEN @ ELSE "transient"]
  /\ UNCHANGED <<blobs, nextId, ing, wk, adm, dispatched>>

\* process_*_job: the next gathered result is appended and the progress
\* written: update_job_status(PROCESSING, progress, processed_files).
handler_progress(w, j, ok) ==
  /\ h[w][j].pc = "progress"
  /\ LET me == h[w][j]
         total_files == Len(me.file_data)
         results == Append(me.results, me.routing_results[Len(me.results) + 1])
         processed == Len(results)
     IN
     /\ jobs' = update_job_status(jobs, j, JobStatus.PROCESSING, None, None,
                                  Some(ProgressOf(processed, total_files)),
                                  Some(processed), ok)
     /\ h' = [h EXCEPT ![w][j].results = results,
                       ![w][j].pc = IF processed = total_files THEN "complete"
                                    ELSE "progress"]
  /\ UNCHANGED <<blobs, nextId, ing, wk, adm, dispatched>>

\* process_*_job: update_job_status(COMPLETED, result=final_result, progress=100).
handler_complete(w, j, ok) ==
  /\ h[w][j].pc = "complete"
  /\ jobs' = update_job_status(jobs, j, JobStatus.COMPLETED,
                               Some(final_result(h[w][j].endpoint_type, h[w][j].results)),
                               None, Some(100), None, ok)
  /\ h' = [h EXCEPT ![w][j].pc = "done"]
  /\ UNCHANGED <<blobs, nextId, ing, wk, adm, dispatched>>

\* process_*_job, except Exception: a transient error with retries left is
\* meant to put the row back and run the job again; anything else marks the
\* row FAILED. process_classify_job evaluates JobStatus.PENDING on the retry
\* path and process_analyze_job evaluates retry_count, which it does not
\* define: either raises out of the handler before any write. Before that,
\* both print traceback.format_exc(): in process_classify_job the name is a
\* local, unbound unless the import at the get_file_data call has run, and the
\* handler then raises UnboundLocalError before any write.
handler_except(w, j, ok) ==
  /\ h[w][j].pc = "except"
  /\ LET me == h[w][j]
         retry == IF me.endpoint_type = "classify"
                  THEN me.exc = "transient" /\ me.retry_count < max_retries
                  ELSE me.exc = "transient"
         defined == me.endpoint_type = "classify" /\ "PENDING" \in DOMAIN JobStatus
         bound == me.endpoint_type = "analyze" \/ me.traceback
     IN
     IF ~bound
     THEN /\ jobs' = jobs
          /\ h' = [h EXCEPT ![w][j].pc = "done", ![w][j].raised = TRUE]
     ELSE IF retry /\ defined
     THEN /\ jobs' = update_job_status(jobs, j, JobStatus.PENDING, None, None, None, None, ok)
          /\ h' = [h EXCEPT ![w][j] =
                     [IdleHandler EXCEPT !.pc = "start",
                                         !.endpoint_type = me.endpoint_type,
                                         !.retry_count = me.retry_count + 1]]
     ELSE IF retry
     THEN /\ jobs' = jobs
          /\ h' = [h EXCEPT ![w][j].pc = "done", ![w][j].raised = TRUE]
     ELSE /\ jobs' = update_job_status(
                       jobs, j, JobStatus.FAILED, None,
                       Some(IF me.exc = "no_file_data"
                            THEN "Job processing failed: No file data found for job"
                            ELSE "Job processing failed"),
                       None, None, ok)
          /\ h' = [h EXCEPT ![w][j].pc = "done"]
  /\ UNCHANGED <<blobs, nextId, ing, wk, adm, dispatched>>

\* ------------------------------------------------- calls of the admin API
\* reset_failed_job without the test of the status.
reset_failed_job_read_any_status(c, j, ok) ==
  /\ adm[c].pc = "idle"
  /\ adm' = [adm EXCEPT ![c] =
               IF get_job(jobs, j, None, ok) # None
               THEN [IdleCaller EXCEPT !.op = "reset_failed_job", !.job = j,
                                       !.pc = "reset_write"]
               ELSE [IdleCaller EXCEPT !.op = "reset_failed_job", !.job = j,
                                       !.pc = "returned", !.ret = "False"]]
  /\ UNCHANGED <<jobs, blobs, nextId, ing, wk, h, dispatched>>

\* reset_failed_job: the read. Not found or not FAILED: return False.
reset_failed_job_read(c, j, ok) ==
  /\ adm[c].pc = "idle"
  /\ LET job == get_job(jobs, j, None, ok) IN
     adm' = [adm EXCEPT ![c] =
               IF job # None /\ job[1].status = JobStatus.FAILED
               THEN [IdleCaller EXCEPT !.op = "reset_failed_job", !.job = j,
                                       !.pc = "reset_write"]
               ELSE [IdleCaller EXCEPT !.op = "reset_failed_job", !.job = j,
                                       !.pc = "returned", !.ret = "False"]]
  /\ UNCHANGED <<jobs, blobs, nextId, ing, wk, h, dispatched>>

\* reset_failed_job with the error left in the row.
reset_row_keeps_error(rows, job_id, ok) ==
  IF ~ok \/ job_id \notin DOMAIN rows THEN rows
  ELSE [rows EXCEPT ![job_id] =
         [@ EXCEPT !.status = JobStatus.READY, !.progress = 0, !.processed_files = 0]]

\* reset_failed_job: UPDATE ... WHERE id = job_id of status, error, progress
\* and processed_files.
reset_row(rows, job_id, ok) ==
  IF ~ok \/ job_id \notin DOMAIN rows THEN rows
  ELSE [rows EXCEPT ![job_id] =
         [@ EXCEPT !.status = JobStatus.READY, !.error = None,
                   !.progress = 0, !.processed_files = 0]]

reset_failed_job_write(c, ok) ==
  /\ adm[c].pc = "reset_write"
  /\ jobs' = reset_row(jobs, adm[c].job, ok)
  /\ adm' = [adm EXCEPT ![c].pc = "returned",
                        ![c].ret = IF ok THEN "True" ELSE "False"]
  /\ dispatched' = Redispatched(jobs, jobs', dispatched)
  /\ UNCHANGED <<blobs, nextId, ing, wk, h>>

\* delete_job: the read. Not found: return False.
delete_job_read(c, j, ok) ==
  /\ adm[c].pc = "idle"
  /\ LET job == get_job(jobs, j, None, ok) IN
     adm' = [adm EXCEPT ![c] =
               IF job # None
               THEN [IdleCaller EXCEPT !.op = "delete_job", !.job = j,
                                       !.pc = "delete_blobs",
                                       !.seen = job[1].file_storage_urls]
               ELSE [IdleCaller EXCEPT !.op = "delete_job", !.job = j,
                                       !.pc = "returned", !.ret = "False"]]
  /\ UNCHANGED <<jobs, blobs, nextId, ing, wk, h, dispatched>>

\* delete_job: str.split(sub)[-1], the part after the last occurrence of sub.
RECURSIVE LastPart(_, _, _)
LastPart(cs, sub, from) ==
  IF \E k \in Occurrences(cs, sub) : k >= from
  THEN LastPart(cs, sub, SetMin({k \in Occurrences(cs, sub) : k >= from}) + Len(sub))
  ELSE SubSeq(cs, from, Len(cs))

BucketDir == <<"/", "i", "n", "b", "o", "x", "-", "f", "i", "l", "e", "s", "/">>

\* delete_job: the storage path taken from a legacy storage_url.
UrlStoragePath(url) ==
  IF ~HasLiteral(url, 1, <<"h", "t", "t", "p">>) THEN PyStr(url)
  ELSE IF Occurrences(url, PublicPrefix) # {}
    THEN SecondPart(url, PublicPrefix, Occurrences(url, PublicPrefix))
  ELSE IF Occurrences(url, BucketDir) # {} THEN PyStr(LastPart(url, BucketDir, 1))
  ELSE PyNone

Removal(storage_path_) ==
  IF Truthy(storage_path_) /\ storage_path_.t = "str" THEN {storage_path_.v} ELSE {}

\* delete_job: the storage paths it asks the bucket to remove, from the
\* full-metadata column read before. The loop ends at the first element that
\* raises (not a dict, or a storage_url that is no string), and nothing is
\* removed when the column does not parse.
RECURSIVE PathsToRemove(_)
PathsToRemove(file_urls) ==
  IF file_urls = <<>> \/ Head(file_urls).t # "dict" THEN {}
  ELSE IF /\ Chars_file_path \in DOMAIN Head(file_urls).v
          /\ Truthy(Head(file_urls).v[Chars_file_path])
    THEN Removal(Head(file_urls).v[Chars_file_path]) \cup PathsToRemove(Tail(file_urls))
  ELSE IF \/ Chars_storage_url \notin DOMAIN Head(file_urls).v
          \/ ~Truthy(Head(file_urls).v[Chars_storage_url])
    THEN PathsToRemove(Tail(file_urls))
  ELSE IF Head(file_urls).v[Chars_storage_url].t # "str" THEN {}
  ELSE Removal(UrlStoragePath(Head(file_urls).v[Chars_storage_url].v))
         \cup PathsToRemove(Tail(file_urls))

StoredPathsOf(seen) ==
  LET file_urls == IF seen.t = "str" THEN json_loads(seen.v).val ELSE seen IN
  IF Truthy(seen) /\ file_urls.t = "list" THEN PathsToRemove(file_urls.v) ELSE {}

\* delete_job: the removals; a removal that fails is logged and skipped.
delete_job_blobs(c, removed) ==
  /\ adm[c].pc = "delete_blobs"
  /\ removed \subseteq StoredPathsOf(adm[c].seen)
  /\ blobs' = [path \in DOMAIN blobs \ removed |-> blobs[path]]
  /\ adm' = [adm EXCEPT ![c].pc = "delete_row", ![c].seen = PyNone]
  /\ UNCHANGED <<jobs, nextId, ing, wk, h, dispatched>>

\* delete_job: DELETE ... WHERE id = job_id.
delete_job_row(c, ok) ==
  /\ adm[c].pc = "delete_row"
  /\ jobs' = IF ok THEN [k \in DOMAIN jobs \ {adm[c].job} |-> jobs[k]] ELSE jobs
  /\ adm' = [adm EXCEPT ![c].pc = "returned",
                        ![c].ret = IF ok THEN "True" ELSE "False"]
  /\ UNCHANGED <<blobs, nextId, ing, wk, h, dispatched>>

\* claim_job, one conditional UPDATE: the row is returned iff it matched.
claim_job_call(c, j, ok) ==
  /\ adm[c].pc = "idle"
  /\ jobs' = claim_job(jobs, j, ok)
  /\ adm' = [adm EXCEPT ![c] =
               [IdleCaller EXCEPT !.op = "claim_job", !.job = j, !.pc = "returned",
                                  !.ret = IF claim_job_matches(jobs, j, ok)
                                          THEN "row" ELSE "None"]]
  /\ UNCHANGED <<blobs, nextId, ing, wk, h, dispatched>>

\* ------------------------------------------------------- GET /job/{job_id}
\* The owner filters a caller can send in X-User-ID: none, the empty string,
\* the owner of the jobs, another user.
OwnerFilters == {None, Some(<<>>), Some(<<"u">>), Some(<<"v">>)}

\* get_job_status with result and error included whenever the row holds them.
StatusResponse_any_status(job_id, job) ==
  [job_id |-> job_id, status |-> job.status, progress |-> job.progress,
   created_at |-> job.created_at]
  @@ (IF job.total_files # 0
      THEN [total_files |-> job.total_files, processed_files |-> job.processed_files]
      ELSE <<>>)
  @@ (IF job.result # None THEN [result |-> job.result[1]] ELSE <<>>)
  @@ (IF job.error # None /\ job.error[1] # "" THEN [error |-> job.error[1]] ELSE <<>>)

\* get_job_status: the response built from a row. The counters are included
\* when total_files is truthy, result on COMPLETED when truthy, error on FAILED
\* when truthy.
StatusResponse(job_id, job) ==
  [job_id |-> job_id, status |-> job.status, progress |-> job.progress,
   created_at |-> job.created_at]
  @@ (IF job.total_files # 0
      THEN [total_files |-> job.total_files, processed_files |-> job.processed_files]
      ELSE <<>>)
  @@ (IF job.status = JobStatus.COMPLETED /\ job.result # None
      THEN [result |-> job.result[1]] ELSE <<>>)
  @@ (IF job.status = JobStatus.FAILED /\ job.error # None /\ job.error[1] # ""
      THEN [error |-> job.error[1]] ELSE <<>>)

StatusReply(c, j, user_id, job) ==
  [IdleCaller EXCEPT
     !.op = "get_job_status", !.job = j, !.pc = "returned", !.user_id = user_id,
     !.ret = IF job = None THEN "404" ELSE "200",
     !.seen = IF job = None THEN PyNone
              ELSE [t |-> "response", v |-> StatusResponse(j, job[1])]]

\* GET /job/{job_id} with the header X-User-ID = user_id: get_job with the
\* filter, 404 when it returns nothing.
get_job_status(c, j, user_id, ok) ==
  /\ adm[c].pc = "idle"
  /\ adm' = [adm EXCEPT ![c] = StatusReply(c, j, user_id, get_job(jobs, j, user_id, ok))]
  /\ UNCHANGED <<jobs, blobs, nextId, ing, wk, h, dispatched>>

\* The caller is free for its next call.
caller_return(c) ==
  /\ adm[c].pc = "returned"
  /\ adm' = [adm EXCEPT ![c] = IdleCaller]
  /\ UNCHANGED <<jobs, blobs, nextId, ing, wk, h, dispatched>>

\* ------------------------------------------------------ the specification
\* A run has at most MaxFaults departures from the plain outcome: a storage
\* call that fails, an upload that is not stored, a file that yields no
\* classification, a removal from the bucket that fails.
Budget(cost) == faults + cost <= MaxFaults /\ faults' = faults + cost
Fault(ok) == IF ok THEN 0 ELSE 1
FaultsIn(f, n, plain) == Cardinality({k \in 1..n : f[k] \notin plain})
PlainFates == {"INBOX", "ARCHIVE", "OTHER"}

Ingestion(files) ==
  \/ \E kind \in EndpointTypes, n \in 1..files, u \in UserIds :
       async_create(kind, n, u) /\ Budget(0)
  \/ \E j \in JobIds, outcome \in [1..MaxFiles -> UploadOutcomes] :
       /\ async_upload(j, outcome)
       /\ \A k \in (ing[j].n + 1)..MaxFiles : outcome[k] = "stored"
       /\ Budget(FaultsIn(outcome, ing[j].n, {"stored"}))
  \/ \E j \in JobIds, ok \in StorageOutcomes : async_store(j, ok) /\ Budget(Fault(ok))
  \/ \E j \in JobIds, ok \in StorageOutcomes : async_mark_failed(j, ok) /\ Budget(Fault(ok))
  \/ \E j \in JobIds, ok \in StorageOutcomes : async_mark_ready(j, ok) /\ Budget(Fault(ok))

Worker(w, raisable, fates) ==
  \/ \E ok \in StorageOutcomes : worker_loop_poll(w, ok) /\ Budget(Fault(ok))
  \/ worker_loop_gather(w) /\ Budget(0)
  \/ \E j \in DOMAIN h[w], ok \in StorageOutcomes : handler_start(w, j, ok) /\ Budget(Fault(ok))
  \/ \E j \in DOMAIN h[w], ok \in StorageOutcomes, exc \in raisable :
       handler_get_file_data(w, j, ok, exc) /\ Budget(Fault(ok))
  \/ \E j \in DOMAIN h[w], ok \in StorageOutcomes, fate \in [1..MaxFiles -> fates] :
       /\ handler_process_files(w, j, ok, fate)
       /\ \A k \in (Len(h[w][j].file_data) + 1)..MaxFiles : fate[k] = "INBOX"
       /\ Budget(Fault(ok) + FaultsIn(fate, Len(h[w][j].file_data), PlainFates))
  \/ \E j \in DOMAIN h[w], ok \in StorageOutcomes : handler_progress(w, j, ok) /\ Budget(Fault(ok))
  \/ \E j \in DOMAIN h[w], ok \in StorageOutcomes : handler_complete(w, j, ok) /\ Budget(Fault(ok))
  \/ \E j \in DOMAIN h[w], ok \in StorageOutcomes : handler_except(w, j, ok) /\ Budget(Fault(ok))

Admin(c) ==
  \/ \E j \in JobIds, ok \in StorageOutcomes :
       reset_failed_job_read(c, j, ok) /\ Budget(Fault(ok))
  \/ \E ok \in StorageOutcomes : reset_failed_job_write(c, ok) /\ Budget(Fault(ok))
  \/ \E j \in JobIds, ok \in StorageOutcomes : delete_job_read(c, j, ok) /\ Budget(Fault(ok))
  \/ \E removed \in SUBSET DOMAIN blobs :
       /\ delete_job_blobs(c, removed)
       /\ Budget(Fault((StoredPathsOf(adm[c].seen) \cap DOMAIN blobs) \subseteq removed))
  \/ \E ok \in StorageOutcomes : delete_job_row(c, ok) /\ Budget(Fault(ok))
  \/ caller_return(c) /\ Budget(0)

Next ==
  \/ Ingestion(MaxFiles)
  \/ \E w \in Workers : Worker(w, Exceptions, FileFates)
  \/ \E c \in Callers : Admin(c)

Spec == Init /\ [][Next]_vars

\* A deployment with every worker instance running on the same job store,
\* requests of at most WorkersFiles files, no exception at get_file_data and
\* no admin call.
InitWorkers ==
  /\ jobs = <<>>
  /\ blobs = <<>>
  /\ nextId = 0
  /\ ing = [j \in JobIds |-> IdleIngestion]
  /\ wk = [w \in Workers |-> "poll"]
  /\ h = [w \in Workers |-> [j \in JobIds |-> IdleHandler]]
  /\ adm = [c \in Callers |-> IdleCaller]
  /\ dispatched = [j \in JobIds |-> 0]
  /\ faults = 0

NextWorkers ==
  \/ Ingestion(WorkersFiles)
  \/ \E w \in Workers : Worker(w, {"none"}, FileFates)

SpecWorkers == InitWorkers /\ [][NextWorkers]_vars

\* A deployment with one worker instance and callers of GET /job/{job_id}:
\* requests of at most WorkersFiles files, no exception at get_file_data.
Api(c) ==
  \/ \E j \in JobIds, user_id \in OwnerFilters, ok \in StorageOutcomes :
       get_job_status(c, j, user_id, ok) /\ Budget(Fault(ok))
  \/ caller_return(c) /\ Budget(0)

NextApi ==
  \/ Ingestion(WorkersFiles)
  \/ \E w \in Workers : Worker(w, {"none"}, FileFates)
  \/ \E c \in Callers : Api(c)

SpecApi == Init /\ [][NextApi]_vars

\* --------------------------------------- claim_job under concurrent callers
\* The row ingestion leaves behind for a request of n stored files.
StoredRefs(job_id, n) ==
  [k \in 1..n |-> FileRef(UploadName(k), storage_path(job_id, UploadName(k)), 1)]

StoredRow(job_id, kind, n, status) ==
  store_file_storage_urls(
    (job_id :> create_job(kind, n, None, status, job_id)), job_id,
    StoredRefs(job_id, n))

Statuses == {CREATED, READY, PROCESSING, COMPLETED, FAILED}
Claimers == 1..NumClaimers

\* One job in any status, or none, and NumClaimers callers about to call
\* claim_job; no worker is running.
InitClaim ==
  /\ jobs \in {<<>>} \cup {StoredRow(1, kind, 1, status) :
                              kind \in EndpointTypes, status \in Statuses}
  /\ blobs = <<>>
  /\ nextId = 1
  /\ ing = [j \in JobIds |-> IdleIngestion]
  /\ wk = [w \in Workers |-> "off"]
  /\ h = [w \in Workers |-> [j \in JobIds |-> IdleHandler]]
  /\ adm = [c \in Claimers |-> IdleCaller]
  /\ dispatched = [j \in JobIds |-> 0]
  /\ faults = 0

NextClaim ==
  \E c \in Claimers, j \in JobIds, ok \in StorageOutcomes :
    claim_job_call(c, j, ok) /\ Budget(Fault(ok))

SpecClaim == InitClaim /\ [][NextClaim]_vars

\* ------------------------------------------- get_file_data over stored rows
\* How the full-metadata column comes back from the store for a list of
\* references: the list itself, its JSON text, the JSON text of that text,
\* the JSON text between quotes, the JSON text with its quotes escaped, a
\* text that is no JSON, or NULL.
Encodings == {"native", "json", "double", "quoted", "escaped", "corrupt", "none"}

CorruptText == <<"[", "{">>

Encoded(e, refs) ==
  CASE e = "native" -> PyList(refs)
    [] e = "json" -> PyStr(json_dumps(PyList(refs)))
    [] e = "double" -> PyStr(json_dumps(PyStr(json_dumps(PyList(refs)))))
    [] e = "quoted" -> PyStr(<<"\"">> \o json_dumps(PyList(refs)) \o <<"\"">>)
    [] e = "escaped" -> PyStr(EscapeString(json_dumps(PyList(refs))))
    [] e = "corrupt" -> PyStr(CorruptText)
    [] OTHER -> PyNone

\* The simple-locator and the legacy column name a file of their own.
SimplePathsStored == <<PyStr(storage_path(1, UploadName(3)))>>
LegacyRefs == <<FileRef(UploadName(3), local_path(1, UploadName(3)), 1)>>

SimpleColumns == {PyNone, PyList(<<>>), PyList(<<PyStr(<<>>)>>), PyList(SimplePathsStored)}
LegacyColumns ==
  {PyNone, PyList(LegacyRefs), PyStr(json_dumps(PyList(LegacyRefs))), PyStr(CorruptText)}

\* One PROCESSING job whose three columns hold any combination of the above,
\* and a caller about to call get_file_data; ing remembers the references the
\* front door uploaded and the form in which the store returns them.
InitDecode ==
  \E n \in 0..MaxFiles, e \in Encodings, simple \in SimpleColumns, legacy \in LegacyColumns :
    /\ jobs = (1 :> [create_job("classify", n, None, PROCESSING, 1) EXCEPT
                       !.file_storage_urls = Encoded(e, StoredRefs(1, n)),
                       !.file_urls = simple,
                       !.file_data = legacy])
    /\ ing = [j \in JobIds |->
                IF j = 1
                THEN [IdleIngestion EXCEPT !.kind = "classify", !.pc = "done", !.n = n,
                                           !.file_urls = StoredRefs(1, n),
                                           !.stored_as = e]
                ELSE IdleIngestion]
    /\ blobs = <<>>
    /\ nextId = 1
    /\ wk = [w \in Workers |-> "off"]
    /\ h = [w \in Workers |-> [j \in JobIds |-> IdleHandler]]
    /\ adm = [c \in Callers |-> IdleCaller]
    /\ dispatched = [j \in JobIds |-> 0]
    /\ faults = 0

\* A call of get_file_data as the handlers make it; the value returned is kept.
get_file_data_call(c, j, ok) ==
  /\ adm[c].pc = "idle"
  /\ adm' = [adm EXCEPT ![c] =
               [IdleCaller EXCEPT !.op = "get_file_data", !.job = j, !.pc = "returned",
                                  !.ret = IF ok THEN "value" ELSE "swallowed",
                                  !.seen = get_file_data(jobs, j, ok)]]
  /\ UNCHANGED <<jobs, blobs, nextId, ing, wk, h, dispatched>>

NextDecode ==
  \E c \in Callers, j \in JobIds, ok \in StorageOutcomes :
    get_file_data_call(c, j, ok) /\ Budget(Fault(ok))

SpecDecode == InitDecode /\ [][NextDecode]_vars

\* ------------------------------------------------ get_pending_jobs on a queue
PendingJobs == 3
MaxCreatedAt == 2
PollLimits == {1, 2, PollLimit}

\* A call of get_pending_jobs as worker_loop makes it; the limit and the ids
\* returned are kept.
get_pending_jobs_call(c, limit, ok) ==
  /\ adm[c].pc = "idle"
  /\ adm' = [adm EXCEPT ![c] =
               [IdleCaller EXCEPT
                  !.op = "get_pending_jobs", !.pc = "returned",
                  !.ret = IF ok THEN "value" ELSE "swallowed",
                  !.seen = [t |-> "listing",
                            v |-> [limit |-> limit,
                                   ids |-> get_pending_jobs(jobs, limit, ok)]]]]
  /\ UNCHANGED <<jobs, blobs, nextId, ing, wk, h, dispatched>>

\* PendingJobs jobs, each in any status and created at any of MaxCreatedAt
\* instants; no worker is running.
InitPending ==
  /\ \E status \in [1..PendingJobs -> Statuses],
        created_at \in [1..PendingJobs -> 1..MaxCreatedAt] :
       jobs = [j \in 1..PendingJobs |->
                 [StoredRow(j, "classify", 1, status[j])[j]
                    EXCEPT !.created_at = created_at[j]]]
  /\ blobs = <<>>
  /\ nextId = PendingJobs
  /\ ing = [j \in JobIds |-> IdleIngestion]
  /\ wk = [w \in Workers |-> "off"]
  /\ h = [w \in Workers |-> [j \in JobIds |-> IdleHandler]]
  /\ adm = [c \in Callers |-> IdleCaller]
  /\ dispatched = [j \in JobIds |-> 0]
  /\ faults = 0

NextPending ==
  \E c \in Callers, limit \in PollLimits, ok \in StorageOutcomes :
    get_pending_jobs_call(c, limit, ok) /\ Budget(Fault(ok))

SpecPending == InitPending /\ [][NextPending]_vars

\* ------------------------------------------------------- classify_document
MAX_RETRIES == 3

\* What one request to the model comes to: it raises (the request, an empty
\* content or the JSON parsing), it answers something other than an object
\* holding channel and routing, or it answers an object of some routing.
AttemptOutcomes == {"raises", "malformed"} \cup PlainFates

\* The routing result returned when the answers are of no use.
ArchiveDefault(reasoning) ==
  [channel |-> "ARCHIVE", routing |-> "ARCHIVE", urgency |-> "LOW",
   reasoning |-> reasoning]

\* classify_document that lets the exception of its last attempt out.
RECURSIVE classify_document_reraises(_, _)
classify_document_reraises(outcomes, attempt) ==
  IF attempt > MAX_RETRIES
  THEN [raised |-> TRUE, attempts |-> attempt - 1,
        value |-> ArchiveDefault("none")]
  ELSE CASE outcomes[attempt] = "raises" ->
              classify_document_reraises(outcomes, attempt + 1)
         [] outcomes[attempt] = "malformed" ->
              [raised |-> FALSE, attempts |-> attempt,
               value |-> ArchiveDefault("Classification failed - routing to archive")]
         [] OTHER ->
              [raised |-> FALSE, attempts |-> attempt,
               value |-> [channel |-> "GIVEN", routing |-> outcomes[attempt],
                          urgency |-> "GIVEN", reasoning |-> "GIVEN"]]

\* classify_document from its attempt-th request on: the first request that
\* does not raise decides; after MAX_RETRIES requests the default is returned.
RECURSIVE classify_document(_, _)
classify_document(outcomes, attempt) ==
  IF attempt > MAX_RETRIES
  THEN [raised |-> FALSE, attempts |-> attempt - 1,
        value |-> ArchiveDefault("All classification attempts failed - routing to archive")]
  ELSE CASE outcomes[attempt] = "raises" ->
              classify_document(outcomes, attempt + 1)
         [] outcomes[attempt] = "malformed" ->
              [raised |-> FALSE, attempts |-> attempt,
               value |-> ArchiveDefault("Classification failed - routing to archive")]
         [] OTHER ->
              [raised |-> FALSE, attempts |-> attempt,
               value |-> [channel |-> "GIVEN", routing |-> outcomes[attempt],
                          urgency |-> "GIVEN", reasoning |-> "GIVEN"]]

\* A call of classify_document, as process_file makes it.
classify_document_call(c, outcomes) ==
  /\ adm[c].pc = "idle"
  /\ adm' = [adm EXCEPT ![c] =
               [IdleCaller EXCEPT
                  !.op = "classify_document", !.pc = "returned",
                  !.ret = IF classify_document(outcomes, 1).raised
                          THEN "raised" ELSE "value",
                  !.seen = [t |-> "classified",
                            v |-> [outcomes |-> outcomes,
                                   result |-> classify_document(outcomes, 1)]]]]
  /\ UNCHANGED <<jobs, blobs, nextId, ing, wk, h, dispatched>>

NextClassify ==
  \E c \in Callers, outcomes \in [1..MAX_RETRIES -> AttemptOutcomes] :
    classify_document_call(c, outcomes) /\ Budget(0)

SpecClassify == Init /\ [][NextClassify]_vars

\* ------------------------------------------- the semaphore of one handler
SemFiles == 21

\* The cap, were it 12 for every job.
max_concurrent_api_calls_flat(n) == 12

\* process_*_job: max_concurrent_api_calls for a job of n files.
max_concurrent_api_calls(n) ==
  IF n <= 10 THEN 5 ELSE IF n <= 20 THEN 8 ELSE 12

\* A handler that resolved n files has created asyncio.Semaphore(cap) and
\* its n process_file tasks; none has reached the model call yet.
InitSemaphore ==
  /\ jobs = <<>> /\ blobs = <<>> /\ nextId = 0
  /\ ing = [j \in JobIds |-> IdleIngestion]
  /\ wk = [w \in Workers |-> "gather"]
  /\ \E w0 \in Workers, j0 \in JobIds, kind \in EndpointTypes, n \in 1..SemFiles :
       h = [w \in Workers |-> [j \in JobIds |->
              IF w = w0 /\ j = j0
              THEN [IdleHandler EXCEPT
                      !.pc = "gather_files", !.endpoint_type = kind,
                      !.semaphore = [files |-> n,
                                     value |-> max_concurrent_api_calls(n),
                                     pending |-> n, in_flight |-> 0]]
              ELSE IdleHandler]]
  /\ adm = [c \in Callers |-> IdleCaller]
  /\ dispatched = [j \in JobIds |-> 0]
  /\ faults = 0

\* process_file: `async with semaphore` is entered when a permit is free, and
\* the model call starts.
semaphore_acquire(w, j) ==
  /\ h[w][j].pc = "gather_files"
  /\ h[w][j].semaphore.pending > 0
  /\ h[w][j].semaphore.value > 0
  /\ h' = [h EXCEPT ![w][j].semaphore =
             [@ EXCEPT !.value = @ - 1, !.pending = @ - 1, !.in_flight = @ + 1]]
  /\ UNCHANGED <<jobs, blobs, nextId, ing, wk, adm, dispatched>>

\* process_file: the model call returned, raised or timed out; leaving the
\* `async with` block gives the permit back.
semaphore_release(w, j) ==
  /\ h[w][j].pc = "gather_files"
  /\ h[w][j].semaphore.in_flight > 0
  /\ h' = [h EXCEPT ![w][j].semaphore =
             [@ EXCEPT !.value = @ + 1, !.in_flight = @ - 1]]
  /\ UNCHANGED <<jobs, blobs, nextId, ing, wk, adm, dispatched>>

\* process_file: a file without bytes or without text returns before the
\* semaphore.
semaphore_bypass(w, j) ==
  /\ h[w][j].pc = "gather_files"
  /\ h[w][j].semaphore.pending > 0
  /\ h' = [h EXCEPT ![w][j].semaphore.pending = @ - 1]
  /\ UNCHANGED <<jobs, blobs, nextId, ing, wk, adm, dispatched>>

NextSemaphore ==
  \E w \in Workers, j \in JobIds :
    \/ semaphore_acquire(w, j) /\ Budget(0)
    \/ semaphore_release(w, j) /\ Budget(0)
    \/ semaphore_bypass(w, j) /\ Budget(0)

SpecSemaphore == InitSemaphore /\ [][NextSemaphore]_vars

\* --------------------------------------------- one worker and a full queue
DispatchJobs == 11

\* DispatchJobs one-file jobs are READY, of alternating kinds, and one worker
\* is about to poll.
InitDispatch ==
  /\ \E first \in EndpointTypes :
       jobs = [j \in 1..DispatchJobs |->
                 StoredRow(j, IF j % 2 = 1 THEN first
                              ELSE CHOOSE kind \in EndpointTypes : kind # first,
                           1, READY)[j]]
  /\ blobs = <<>>
  /\ nextId = DispatchJobs
  /\ ing = [j \in 1..DispatchJobs |-> IdleIngestion]
  /\ wk = [w \in Workers |-> IF w = 1 THEN "poll" ELSE "off"]
  /\ h = [w \in Workers |-> [j \in 1..DispatchJobs |-> IdleHandler]]
  /\ adm = [c \in Callers |-> IdleCaller]
  /\ dispatched = [j \in 1..DispatchJobs |-> 0]
  /\ faults = 0

NextDispatch == \E w \in Workers : Worker(w, {"none"}, {"INBOX"})

SpecDispatch == InitDispatch /\ [][NextDispatch]_vars

\* ------------------------------- workers that stop, and operators' calls
NumOperators == 2
Operators == 1..NumOperators

\* The worker process ends (KeyboardInterrupt, a kill) and a new one is
\* started: asyncio.run cancels the handler tasks, whose except Exception
\* clauses do not catch the cancellation, so no handler writes anything more;
\* the new process enters the polling loop of worker_loop.
worker_restart(w) ==
  /\ wk[w] # "off"
  /\ wk' = [wk EXCEPT ![w] = "poll"]
  /\ h' = [h EXCEPT ![w] = [j \in DOMAIN h[w] |-> IdleHandler]]
  /\ UNCHANGED <<jobs, blobs, nextId, ing, adm, dispatched>>

\* One stored job of one file, READY or left FAILED by a handler, its file in
\* the bucket; one worker is polling and the operators are about to call.
InitRecovery ==
  /\ \E kind \in EndpointTypes, failed \in BOOLEAN :
       jobs = IF failed
              THEN update_job_status(StoredRow(1, kind, 1, READY), 1,
                                     JobStatus.FAILED, None,
                                     Some("Job processing failed"), None, None, TRUE)
              ELSE StoredRow(1, kind, 1, READY)
  /\ blobs = (storage_path(1, UploadName(1)) :> <<1, 1>>)
  /\ nextId = 1
  /\ ing = [j \in JobIds |-> IdleIngestion]
  /\ wk = [w \in Workers |-> IF w = 1 THEN "poll" ELSE "off"]
  /\ h = [w \in Workers |-> [j \in JobIds |-> IdleHandler]]
  /\ adm = [c \in Operators |-> IdleCaller]
  /\ dispatched = [j \in JobIds |-> 0]
  /\ faults = 0

Operator(c) ==
  \/ Admin(c)
  \/ \E j \in JobIds, ok \in StorageOutcomes : claim_job_call(c, j, ok) /\ Budget(Fault(ok))

NextRecovery ==
  \/ \E w \in Workers : Worker(w, {"none"}, {"INBOX"})
  \/ \E w \in Workers : worker_restart(w) /\ Budget(0)
  \/ \E c \in Operators : Operator(c)

SpecRecovery == InitRecovery /\ [][NextRecovery]_vars

\* --------------------------------- process_file and its temporary files
TaskFiles == 2

\* Where the bytes of a reference are: a storage path, a legacy storage URL,
\* a path that exists on the worker's disk, or no source at all.
FileSources == {"remote", "legacy", "local", "missing"}

\* process_file(file_info) at its start: file_bytes = None, tmp_path = None.
\* finished_at is the rank of the task among those that have returned.
NewTask(source, filename) ==
  [source |-> source, filename |-> filename, pc |-> "fetch", tmp_path |-> FALSE,
   on_disk |-> FALSE, remove_raised |-> FALSE, status |-> "none",
   finished_at |-> 0]

\* A handler that resolved n references has started one process_file task for
\* each (asyncio.gather); none has run yet.
InitTempFiles ==
  /\ jobs = <<>> /\ blobs = <<>> /\ nextId = 0
  /\ ing = [j \in JobIds |-> IdleIngestion]
  /\ wk = [w \in Workers |-> "gather"]
  /\ \E w0 \in Workers, j0 \in JobIds, kind \in EndpointTypes, n \in 1..TaskFiles :
       \E sources \in [1..n -> FileSources] :
         h = [w \in Workers |-> [j \in JobIds |->
                IF w = w0 /\ j = j0
                THEN [IdleHandler EXCEPT
                        !.pc = "gather_files", !.endpoint_type = kind,
                        !.tasks = [k \in 1..n |-> NewTask(sources[k], UploadName(k))]]
                ELSE IdleHandler]]
  /\ adm = [c \in Callers |-> IdleCaller]
  /\ dispatched = [j \in JobIds |-> 0]
  /\ faults = 0

FetchOutcomes == {"ok", "no_signed_url", "no_bytes", "create_raises", "write_raises"}

\* process_file up to the extraction. A local path is read in place. A remote
\* file is downloaded, NamedTemporaryFile(delete=False) creates the file,
\* tmp.write writes the bytes, and only then tmp_path = tmp.name; a raise on
\* the way goes to the except clause.
process_file_fetched(task, outcome) ==
  CASE task.source = "missing" ->
         [task EXCEPT !.pc = "finally", !.status = "error"]
    [] task.source = "local" -> [task EXCEPT !.pc = "extract"]
    [] outcome \in {"no_signed_url", "no_bytes", "create_raises"} ->
         [task EXCEPT !.pc = "finally", !.status = "error"]
    [] outcome = "write_raises" ->
         [task EXCEPT !.pc = "finally", !.status = "error", !.on_disk = TRUE]
    [] OTHER -> [task EXCEPT !.pc = "extract", !.on_disk = TRUE, !.tmp_path = TRUE]

process_file_fetch(w, j, k, outcome) ==
  /\ h[w][j].pc = "gather_files"
  /\ k \in DOMAIN h[w][j].tasks
  /\ h[w][j].tasks[k].pc = "fetch"
  /\ h[w][j].tasks[k].source \in {"missing", "local"} => outcome = "ok"
  /\ h[w][j].tasks[k].source = "legacy" => outcome # "no_signed_url"
  /\ h' = [h EXCEPT ![w][j].tasks[k] = process_file_fetched(@, outcome)]
  /\ UNCHANGED <<jobs, blobs, nextId, ing, wk, adm, dispatched>>

\* process_file: extract_text_from_upload in the executor returned text,
\* returned blank text ("No text extracted") or raised.
process_file_extract(w, j, k, text) ==
  /\ h[w][j].pc = "gather_files"
  /\ k \in DOMAIN h[w][j].tasks
  /\ h[w][j].tasks[k].pc = "extract"
  /\ h' = [h EXCEPT ![w][j].tasks[k] =
             CASE text = "text" -> [@ EXCEPT !.pc = "classify"]
               [] text = "blank" -> [@ EXCEPT !.pc = "finally", !.status = "failed"]
               [] OTHER -> [@ EXCEPT !.pc = "finally", !.status = "error"]]
  /\ UNCHANGED <<jobs, blobs, nextId, ing, wk, adm, dispatched>>

\* process_file: the model call under asyncio.wait_for returned, timed out or
\* raised.
process_file_classify(w, j, k, outcome) ==
  /\ h[w][j].pc = "gather_files"
  /\ k \in DOMAIN h[w][j].tasks
  /\ h[w][j].tasks[k].pc = "classify"
  /\ h' = [h EXCEPT ![w][j].tasks[k] =
             [@ EXCEPT !.pc = "finally",
                       !.status = IF outcome = "returned" THEN "success" ELSE "error"]]
  /\ UNCHANGED <<jobs, blobs, nextId, ing, wk, adm, dispatched>>

\* process_file, finally: os.remove(tmp_path) when tmp_path is set and the
\* file exists; a raise of os.remove is logged.
process_file_finally(w, j, k, ok) ==
  /\ h[w][j].pc = "gather_files"
  /\ k \in DOMAIN h[w][j].tasks
  /\ h[w][j].tasks[k].pc = "finally"
  /\ LET rank == 1 + Cardinality({i \in DOMAIN h[w][j].tasks :
                                     h[w][j].tasks[i].pc = "returned"})
     IN
     h' = [h EXCEPT ![w][j].tasks[k] =
             IF @.tmp_path /\ @.on_disk
             THEN [@ EXCEPT !.pc = "returned", !.finished_at = rank,
                            !.on_disk = ~ok, !.remove_raised = ~ok]
             ELSE [@ EXCEPT !.pc = "returned", !.finished_at = rank]]
  /\ UNCHANGED <<jobs, blobs, nextId, ing, wk, adm, dispatched>>

\* The results of the tasks in the order in which the tasks returned.
gather_as_completed(tasks) ==
  [r \in 1..Len(tasks) |->
     LET k == CHOOSE i \in DOMAIN tasks : tasks[i].finished_at = r IN
     [filename |-> tasks[k].filename, status |-> tasks[k].status]]

\* asyncio.gather(*tasks): the results in the order of the tasks.
gather(tasks) ==
  [k \in 1..Len(tasks) |->
     [filename |-> tasks[k].filename, status |-> tasks[k].status]]

\* process_*_job after the gather: every task has returned, and the loop
\* over enumerate(routing_results) appends each result to results.
process_files_collect(w, j) ==
  /\ h[w][j].pc = "gather_files"
  /\ h[w][j].tasks # <<>>
  /\ \A k \in DOMAIN h[w][j].tasks : h[w][j].tasks[k].pc = "returned"
  /\ h' = [h EXCEPT ![w][j].routing_results = gather(h[w][j].tasks),
                    ![w][j].results = gather(h[w][j].tasks),
                    ![w][j].pc = "complete"]
  /\ UNCHANGED <<jobs, blobs, nextId, ing, wk, adm, dispatched>>

NextTempFiles ==
  \/ \E w \in Workers, j \in JobIds : process_files_collect(w, j) /\ Budget(0)
  \/ \E w \in Workers, j \in JobIds, k \in 1..TaskFiles :
       \/ \E outcome \in FetchOutcomes : process_file_fetch(w, j, k, outcome) /\ Budget(0)
       \/ \E text \in {"text", "blank", "raises"} :
            process_file_extract(w, j, k, text) /\ Budget(0)
       \/ \E outcome \in {"returned", "timeout", "raises"} :
            process_file_classify(w, j, k, outcome) /\ Budget(0)
       \/ \E ok \in BOOLEAN : process_file_finally(w, j, k, ok) /\ Budget(0)

SpecTempFiles == InitTempFiles /\ [][NextTempFiles]_vars

\* ------------------------------------------- update_job_status on any row
StoredResults == {None, Some(final_result("classify", <<>>))}
StoredErrors == {None, Some("Job processing failed")}
ResultArgs == {None, Some(final_result("analyze", <<>>))}
ErrorArgs == {None, Some("Failed to store file data")}
ProgressArgs == {None, Some(0), Some(50)}
ProcessedArgs == {None, Some(0), Some(1)}

\* One job in any status with any stored result, error and counters, or no
\* job; no worker is running and the callers are about to call
\* update_job_status.
InitUpdate ==
  /\ \/ jobs = <<>>
     \/ \E status \in Statuses, result \in StoredResults, error \in StoredErrors,
           progress \in {0, 100}, processed_files \in {0, 1} :
          jobs = [StoredRow(1, "classify", 1, status)
                    EXCEPT ![1].result = result, ![1].error = error,
                           ![1].progress = progress,
                           ![1].processed_files = processed_files]
  /\ blobs = <<>>
  /\ nextId = 1
  /\ ing = [j \in JobIds |-> IdleIngestion]
  /\ wk = [w \in Workers |-> "off"]
  /\ h = [w \in Workers |-> [j \in JobIds |-> IdleHandler]]
  /\ adm = [c \in Callers |-> IdleCaller]
  /\ dispatched = [j \in JobIds |-> 0]
  /\ faults = 0

\* One call of update_job_status; the caller keeps its arguments.
update_job_status_call(c, j, status, result, error, progress, processed_files, ok) ==
  /\ adm[c].pc = "idle"
  /\ jobs' = update_job_status(jobs, j, status, result, error, progress,
                               processed_files, ok)
  /\ adm' = [adm EXCEPT ![c] =
               [IdleCaller EXCEPT
                  !.op = "update_job_status", !.job = j, !.pc = "returned",
                  !.ret = IF ok THEN "None" ELSE "swallowed",
                  !.seen = [t |-> "arguments",
                            v |-> [status |-> status, result |-> result,
                                   error |-> error, progress |-> progress,
                                   processed_files |-> processed_files]]]]
  /\ UNCHANGED <<blobs, nextId, ing, wk, h, dispatched>>

NextUpdate ==
  \E c \in Callers, j \in JobIds, status \in Statuses, result \in ResultArgs,
     error \in ErrorArgs, progress \in ProgressArgs,
     processed_files \in ProcessedArgs, ok \in StorageOutcomes :
    /\ update_job_status_call(c, j, status, result, error, progress,
                              processed_files, ok)
    /\ Budget(Fault(ok))

SpecUpdate == InitUpdate /\ [][NextUpdate]_vars

\* ------------------------------------------ uploads of files of any name
\* Filenames a client can send: with a space, an underscore, a tilde, an
\* extension.
FileNames ==
  {<<"a", " ", "b">>, <<"a", "_", "b">>, <<"a", "~", "b">>, <<"a", "b">>,
   <<"a", " ", "b", ".", "p">>}

\* A request of one or two files whose row create_job has just written.
InitUpload ==
  /\ \E kind \in EndpointTypes, n \in 1..MaxFiles :
       /\ jobs = (1 :> create_job(kind, n, None, JobStatus.CREATED, 1))
       /\ ing = [j \in JobIds |->
                   IF j = 1
                   THEN [IdleIngestion EXCEPT !.kind = kind, !.pc = "upload", !.n = n]
                   ELSE IdleIngestion]
  /\ blobs = <<>>
  /\ nextId = 1
  /\ wk = [w \in Workers |-> "off"]
  /\ h = [w \in Workers |-> [j \in JobIds |-> IdleHandler]]
  /\ adm = [c \in Callers |-> IdleCaller]
  /\ dispatched = [j \in JobIds |-> 0]
  /\ faults = 0

\* One pass of the upload loop: upload_file_to_storage(job_id, filename,
\* bytes) with upsert, its path appended to the references; when it returns
\* None the bytes are written under the local job directory.
upload_file(j, filename, stored) ==
  /\ ing[j].pc = "upload"
  /\ LET i == Len(ing[j].file_urls) + 1
         path == storage_path(j, filename)
         file_urls ==
           Append(ing[j].file_urls,
                  FileRef(filename,
                          IF stored THEN path ELSE local_path(j, filename), 1))
     IN
     /\ blobs' = IF stored THEN (path :> <<j, i>>) @@ blobs ELSE blobs
     /\ ing' = [ing EXCEPT ![j].file_urls = file_urls,
                           ![j].pc = IF i = ing[j].n THEN "store" ELSE "upload"]
  /\ UNCHANGED <<jobs, nextId, wk, h, adm, dispatched>>

NextUpload ==
  \/ \E j \in JobIds, filename \in FileNames, stored \in BOOLEAN :
       upload_file(j, filename, stored) /\ Budget(Fault(stored))
  \/ \E j \in JobIds, ok \in StorageOutcomes : async_store(j, ok) /\ Budget(Fault(ok))
  \/ \E j \in JobIds, ok \in StorageOutcomes : async_mark_failed(j, ok) /\ Budget(Fault(ok))
  \/ \E j \in JobIds, ok \in StorageOutcomes : async_mark_ready(j, ok) /\ Budget(Fault(ok))

SpecUpload == InitUpload /\ [][NextUpload]_vars

\* ------------------------------------------------------------ properties
Terminal == {COMPLETED, FAILED}
Running(me) == me.pc \notin {"idle", "done"}
RaisingFates == {"unavailable", "extract_raises", "llm_timeout"}
ErrorsIn(results) == CountOf(results, LAMBDA r : r.status = "error")

\* C1: every READY job is processed by exactly one worker: while no storage
\* call has failed, no job has a second handler run started for the same
\* READY episode.
C1_OneHandlerPerReadyEpisode ==
  faults = 0 => \A j \in JobIds : dispatched[j] <= 1

\* C2: of the calls of claim_job made on a job, at most one returns the row;
\* a call that finds the row READY and reaches the store returns the row, now
\* PROCESSING and otherwise unchanged; any other call returns not-claimed and
\* changes nothing. So for a READY job exactly one of N concurrent calls, the
\* first to reach the store, returns the row.
Claimed(j) ==
  {c \in DOMAIN adm : adm[c].op = "claim_job" /\ adm[c].job = j /\ adm[c].ret = "row"}

C2_AtMostOneClaimant ==
  \A j \in JobIds :
    /\ Cardinality(Claimed(j)) <= 1
    /\ Claimed(j) # {} => StatusOf(jobs, j) = PROCESSING
    /\ StatusOf(jobs, j) = READY
         => Cardinality({c \in DOMAIN adm : adm[c].pc = "returned" /\ adm[c].job = j})
              <= faults

C2_ClaimStep ==
  \A c \in DOMAIN adm :
    (adm[c].pc = "idle" /\ adm'[c].op = "claim_job")
      => IF StatusOf(jobs, adm'[c].job) = READY /\ faults' = faults
         THEN /\ adm'[c].ret = "row"
              /\ jobs' = [jobs EXCEPT ![adm'[c].job].status = PROCESSING]
         ELSE /\ adm'[c].ret = "None"
              /\ jobs' = jobs

C2_ClaimExclusive == []C2_AtMostOneClaimant /\ [][C2_ClaimStep]_vars

\* C2 witness: every caller has called claim_job on the job, none hit a
\* storage failure, exactly one was handed the row and the others were not.
C2_Witness ==
  /\ faults = 0
  /\ \A c \in DOMAIN adm : adm[c].op = "claim_job" /\ adm[c].pc = "returned"
  /\ Cardinality(Claimed(1)) = 1
  /\ Cardinality({c \in DOMAIN adm : adm[c].ret = "None"}) = Cardinality(DOMAIN adm) - 1
  /\ Cardinality(DOMAIN adm) >= 2
  /\ StatusOf(jobs, 1) = PROCESSING

\* C3: every change of a row's status is one of CREATED->READY,
\* READY->PROCESSING, PROCESSING->COMPLETED, PROCESSING->FAILED, FAILED->READY,
\* PROCESSING->READY.
LegalTransitions ==
  {<<CREATED, READY>>, <<READY, PROCESSING>>, <<PROCESSING, COMPLETED>>,
   <<PROCESSING, FAILED>>, <<FAILED, READY>>, <<PROCESSING, READY>>}

C3_OnlyLegalTransitions ==
  [][\A j \in DOMAIN jobs \cap DOMAIN jobs' :
       jobs[j].status # jobs'[j].status
         => <<jobs[j].status, jobs'[j].status>> \in LegalTransitions]_vars

\* C4: in every reachable state a READY job has a non-empty stored list of
\* file references.
C4_ReadyHasFileReferences ==
  \A j \in DOMAIN jobs :
    jobs[j].status = READY
      => jobs[j].file_storage_urls.t = "list" /\ jobs[j].file_storage_urls.v # <<>>

\* C5: when a handler catches a transient error and no storage call fails,
\* it starts the next attempt while fewer than 3 retries were made, and
\* marks the job FAILED after the third.
C5_TransientRetriedThenFailed ==
  [][\A w \in Workers, j \in DOMAIN jobs :
       (/\ h[w][j].pc = "except" /\ h[w][j].exc = "transient"
        /\ h'[w][j].pc # "except" /\ faults' = faults /\ j \in DOMAIN jobs')
         => IF h[w][j].retry_count < max_retries
            THEN /\ h'[w][j].pc = "start"
                 /\ h'[w][j].retry_count = h[w][j].retry_count + 1
            ELSE jobs'[j].status = FAILED]_vars

C7_GatheredResults ==
  \A w \in Workers, j \in JobIds :
    /\ h[w][j].routing_results # <<>> =>
         /\ h[w][j].pc # "except"
         /\ ~h[w][j].raised
         /\ Len(h[w][j].routing_results) = Len(h[w][j].file_data)
         /\ \A k \in 1..Len(h[w][j].file_data) :
              /\ h[w][j].routing_results[k].filename
                   = h[w][j].file_data[k].v[Chars_filename]
              /\ h[w][j].fates[k] \in RaisingFates
                   => h[w][j].routing_results[k].status = "error"
              /\ h[w][j].fates[k] \in PlainFates
                   => \/ h[w][j].routing_results[k].status = "success"
                      \/ h[w][j].routing_results[k].error = Some("unavailable")

C7_CompletesWithAllResults ==
  \A w \in Workers, j \in DOMAIN jobs :
    (/\ h[w][j].pc = "complete" /\ h'[w][j].pc = "done"
     /\ faults' = faults /\ j \in DOMAIN jobs')
      => /\ jobs'[j].status = COMPLETED
         /\ jobs'[j].result # None
         /\ jobs'[j].result[1].results = h[w][j].routing_results
         /\ jobs'[j].result[1].total_files = Len(h[w][j].file_data)

C7_PerFileIsolation == []C7_GatheredResults /\ [][C7_CompletesWithAllResults]_vars

\* C7 witness: a job of two files, exactly one of which raised, is COMPLETED
\* with two results of which exactly one has status error.
C7_Witness ==
  \E w \in Workers, j \in DOMAIN jobs :
    /\ h[w][j].pc = "done"
    /\ Len(h[w][j].file_data) = 2
    /\ \E k \in 1..2 : h[w][j].fates[k] = "extract_raises"
    /\ \E k \in 1..2 : h[w][j].fates[k] \in PlainFates
    /\ jobs[j].status = COMPLETED
    /\ jobs[j].result # None
    /\ Len(jobs[j].result[1].results) = 2
    /\ ErrorsIn(jobs[j].result[1].results) = 1

\* C8: while a job is PROCESSING and no storage call has failed, the
\* processed_files written to its row never decrease and never exceed
\* total_files.
C8_MonotoneProgress ==
  [][\A j \in DOMAIN jobs \cap DOMAIN jobs' :
       (jobs[j].status = PROCESSING /\ jobs'[j].status = PROCESSING /\ faults' = 0)
         => /\ jobs'[j].processed_files >= jobs[j].processed_files
            /\ jobs'[j].processed_files <= jobs'[j].total_files]_vars

\* C9: for a non-empty list of references stored as a native list, as its
\* JSON text or as the JSON text of its JSON text, get_file_data returns that
\* list.
Returned(c) == adm[c].op = "get_file_data" /\ adm[c].ret = "value"

C9_SameReferencesInEveryEncoding ==
  \A c \in DOMAIN adm :
    (/\ Returned(c)
     /\ ing[adm[c].job].stored_as \in {"native", "json", "double"}
     /\ ing[adm[c].job].file_urls # <<>>)
      => adm[c].seen = PyList(ing[adm[c].job].file_urls)

\* C10: get_file_data returns the references of the first populated, valid
\* source in the order full metadata, simple locators, legacy column, and of
\* that source only.
FullPopulated(j) ==
  ing[j].stored_as \in {"native", "json"} /\ ing[j].file_urls # <<>>
FullAbsent(j) ==
  ing[j].stored_as \in {"none", "corrupt"} \/ ing[j].file_urls = <<>>
SimplePopulated(j) == j \in DOMAIN jobs /\ jobs[j].file_urls = PyList(SimplePathsStored)
LegacyPopulated(j) ==
  /\ j \in DOMAIN jobs
  /\ jobs[j].file_data \in {PyList(LegacyRefs), PyStr(json_dumps(PyList(LegacyRefs)))}

C10_FirstSourceExclusively ==
  \A c \in DOMAIN adm :
    Returned(c) =>
      /\ FullPopulated(adm[c].job) => adm[c].seen = PyList(ing[adm[c].job].file_urls)
      /\ (FullAbsent(adm[c].job) /\ SimplePopulated(adm[c].job)) =>
           /\ adm[c].seen.t = "list"
           /\ Len(adm[c].seen.v) = Len(SimplePathsStored)
           /\ \A k \in 1..Len(SimplePathsStored) :
                /\ adm[c].seen.v[k].v[Chars_file_path] = SimplePathsStored[k]
                /\ adm[c].seen.v[k].v[Chars_filename] = PyStr(UploadName(3))
      /\ (FullAbsent(adm[c].job) /\ ~SimplePopulated(adm[c].job)
          /\ LegacyPopulated(adm[c].job)) => adm[c].seen = PyList(LegacyRefs)
      /\ (FullAbsent(adm[c].job) /\ ~SimplePopulated(adm[c].job)
          /\ ~LegacyPopulated(adm[c].job)) => adm[c].seen = PyNone

\* C10 witness: all three sources are populated, with different files, and
\* the call returned the two references of the full metadata.
C10_Witness ==
  \E c \in DOMAIN adm :
    /\ Returned(c)
    /\ ing[adm[c].job].stored_as = "json"
    /\ Len(ing[adm[c].job].file_urls) = 2
    /\ SimplePopulated(adm[c].job)
    /\ LegacyPopulated(adm[c].job)
    /\ adm[c].seen = PyList(ing[adm[c].job].file_urls)

\* C11: in every reachable state a row has at most one of result and error
\* set, and neither while its status is CREATED, READY or PROCESSING.
C11_ResultErrorExclusive ==
  \A j \in DOMAIN jobs :
    /\ jobs[j].result = None \/ jobs[j].error = None
    /\ jobs[j].status \in {CREATED, READY, PROCESSING}
         => jobs[j].result = None /\ jobs[j].error = None

\* C12: a status query returns result only for a COMPLETED job and error only
\* for a FAILED job; for a CREATED, READY or PROCESSING job it returns the
\* status and the progress counters and nothing else.
Answered(c) == adm[c].op = "get_job_status" /\ adm[c].ret = "200"

CounterKeys ==
  {"job_id", "status", "progress", "created_at", "total_files", "processed_files"}

C12_ResultAndErrorOnlyWhenTerminal ==
  \A c \in DOMAIN adm :
    Answered(c) =>
      /\ "result" \in DOMAIN adm[c].seen.v => adm[c].seen.v.status = COMPLETED
      /\ "error" \in DOMAIN adm[c].seen.v => adm[c].seen.v.status = FAILED
      /\ adm[c].seen.v.status \in {CREATED, READY, PROCESSING}
           => DOMAIN adm[c].seen.v \subseteq CounterKeys

\* C12 witness: the query was answered for a PROCESSING job whose row holds an
\* error, and the answer holds the counters and no error.
C12_Witness ==
  \E c \in DOMAIN adm :
    /\ Answered(c)
    /\ adm[c].job \in DOMAIN jobs
    /\ jobs[adm[c].job].status = PROCESSING
    /\ jobs[adm[c].job].error # None
    /\ adm[c].seen.v.status = PROCESSING
    /\ "processed_files" \in DOMAIN adm[c].seen.v
    /\ "error" \notin DOMAIN adm[c].seen.v

\* C13: reset_failed_job on a FAILED job, when its write reaches the store,
\* leaves the row READY with error cleared and progress and processed_files 0
\* and returns true; a poll of the worker that lists jobs starts a handler for
\* the READY jobs it lists (the oldest DispatchLimit of them), the reset job
\* included.
C13_ResetStep ==
  \A c \in DOMAIN adm :
    (/\ adm[c].pc = "reset_write" /\ adm'[c].pc = "returned"
     /\ faults' = faults /\ adm[c].job \in DOMAIN jobs)
      => /\ adm'[c].ret = "True"
         /\ jobs' = [jobs EXCEPT ![adm[c].job] =
                       [@ EXCEPT !.status = READY, !.error = None,
                                 !.progress = 0, !.processed_files = 0]]

C13_PollStep ==
  \A w \in Workers :
    (wk[w] = "poll" /\ wk'[w] = "gather")
      => \A j \in DOMAIN jobs :
           (/\ jobs[j].status = READY
            /\ Cardinality({k \in DOMAIN jobs : jobs[k].status = READY}) <= DispatchLimit)
             => h'[w][j].pc = "start"

C13_ResetThenReprocessed == [][C13_ResetStep /\ C13_PollStep]_vars

\* C13 witness: a job that failed was reset by a caller, and a handler of the
\* worker is processing it again.
C13_Witness ==
  \E c \in DOMAIN adm, w \in Workers :
    /\ adm[c].op = "reset_failed_job" /\ adm[c].ret = "True"
    /\ adm[c].job \in DOMAIN jobs
    /\ jobs[adm[c].job].status = PROCESSING
    /\ jobs[adm[c].job].error = None
    /\ h[w][adm[c].job].pc = "progress"
    /\ dispatched[adm[c].job] = 1

\* C14: reset_failed_job on a job that is missing or whose status is not
\* FAILED returns false and leaves every row unchanged: the call ends at its
\* read and makes no write.
C14_ResetRefusedStep ==
  \A c \in DOMAIN adm :
    (/\ adm[c].pc = "idle" /\ adm'[c].op = "reset_failed_job"
     /\ StatusOf(jobs, adm'[c].job) # FAILED)
      => /\ adm'[c].pc = "returned"
         /\ adm'[c].ret = "False"
         /\ jobs' = jobs

C14_ResetOnlyWhenFailed == [][C14_ResetRefusedStep]_vars

\* C14 witness: with no storage failure, reset_failed_job returned false on a
\* job that is being processed.
C14_Witness ==
  \E c \in DOMAIN adm :
    /\ faults = 0
    /\ adm[c].op = "reset_failed_job" /\ adm[c].pc = "returned" /\ adm[c].ret = "False"
    /\ StatusOf(jobs, adm[c].job) = PROCESSING
    /\ jobs[adm[c].job].processed_files = 1

\* C15: delete_job on an existing job removes every blob stored for the job
\* and the row and returns true; the id is not found afterwards; delete_job on
\* a missing id returns false. Stated for runs in which no storage call fails.
BlobsOf(store, j) == {path \in DOMAIN store : store[path][1] = j}

C15_DeleteStep ==
  \A c \in DOMAIN adm :
    /\ (/\ adm[c].pc = "delete_row" /\ adm'[c].pc = "returned" /\ faults' = 0)
         => /\ adm'[c].ret = "True"
            /\ adm[c].job \notin DOMAIN jobs'
            /\ BlobsOf(blobs', adm[c].job) = {}
    /\ (/\ adm[c].pc = "idle" /\ adm'[c].op = "delete_job"
        /\ adm'[c].job \notin DOMAIN jobs)
         => adm'[c].pc = "returned" /\ adm'[c].ret = "False"

C15_DeletedStaysDeleted ==
  \A j \in JobIds : (j <= nextId /\ j \notin DOMAIN jobs) => j \notin DOMAIN jobs'

C15_DeleteRemovesBlobsAndRow == [][C15_DeleteStep /\ C15_DeletedStaysDeleted]_vars

\* C16: a read with an owner filter returns the job only when the row's
\* user_id equals the filter, and not-found otherwise. As stated, for every
\* filter that is passed, the empty string included:
FilteredReadStep(filters) ==
  \A c \in DOMAIN adm :
    (/\ adm[c].pc = "idle" /\ adm'[c].op = "get_job_status"
     /\ adm'[c].user_id \in filters)
      => /\ adm'[c].ret \in {"200", "404"}
         /\ adm'[c].ret = "200"
              <=> /\ adm'[c].job \in DOMAIN jobs
                  /\ jobs[adm'[c].job].user_id = adm'[c].user_id
                  /\ faults' = faults

C16_FilteredReadMatchesOwner == [][FilteredReadStep(OwnerFilters \ {None})]_vars

\* C16, amended: the same for every non-empty filter; an empty filter is no
\* filter.
C16_NonEmptyFilterMatchesOwner ==
  [][FilteredReadStep(OwnerFilters \ {None, Some(<<>>)})]_vars

\* C16 witness: a query with the filter of another user was answered
\* not-found for a job that exists and has an owner, with no storage failure.
C16_Witness ==
  \E c \in DOMAIN adm :
    /\ faults = 0
    /\ adm[c].op = "get_job_status" /\ adm[c].ret = "404"
    /\ adm[c].user_id = Some(<<"v">>)
    /\ adm[c].job \in DOMAIN jobs
    /\ jobs[adm[c].job].user_id = Some(<<"u">>)

\* C17: get_pending_jobs(limit) returns READY rows only, oldest created_at
\* first, at most limit of them, and leaves out a READY row only when limit
\* rows at least as old are returned.
Listed(c) == adm[c].op = "get_pending_jobs" /\ adm[c].ret = "value"

C17_ReadyOldestFirstBounded ==
  \A c \in DOMAIN adm :
    Listed(c) =>
      /\ Len(adm[c].seen.v.ids) <= adm[c].seen.v.limit
      /\ \A k \in 1..Len(adm[c].seen.v.ids) :
           /\ adm[c].seen.v.ids[k] \in DOMAIN jobs
           /\ jobs[adm[c].seen.v.ids[k]].status = READY
           /\ \A m \in 1..(k - 1) :
                /\ adm[c].seen.v.ids[m] # adm[c].seen.v.ids[k]
                /\ jobs[adm[c].seen.v.ids[m]].created_at
                     <= jobs[adm[c].seen.v.ids[k]].created_at
      /\ \A j \in DOMAIN jobs :
           (jobs[j].status = READY /\ j \notin Range(adm[c].seen.v.ids))
             => /\ Len(adm[c].seen.v.ids) = adm[c].seen.v.limit
                /\ \A k \in 1..Len(adm[c].seen.v.ids) :
                     jobs[adm[c].seen.v.ids[k]].created_at <= jobs[j].created_at

\* C17 witness: a call with limit 1 returned one READY job, leaving out a
\* newer READY job and a CREATED job that is no newer than the one returned.
C17_Witness ==
  \E c \in DOMAIN adm :
    /\ Listed(c)
    /\ adm[c].seen.v.limit = 1
    /\ Len(adm[c].seen.v.ids) = 1
    /\ \E j \in DOMAIN jobs :
         /\ jobs[j].status = CREATED
         /\ jobs[j].created_at <= jobs[adm[c].seen.v.ids[1]].created_at
    /\ \E j \in DOMAIN jobs :
         /\ jobs[j].status = READY
         /\ jobs[j].created_at > jobs[adm[c].seen.v.ids[1]].created_at

\* C18: classify_document never raises; it makes at most MAX_RETRIES (3)
\* requests, and when every one of them fails it returns the routing ARCHIVE.
Classified(c) == adm[c].op = "classify_document"

C18_ArchiveWhenAttemptsFail ==
  \A c \in DOMAIN adm :
    Classified(c) =>
      /\ adm[c].ret = "value"
      /\ ~adm[c].seen.v.result.raised
      /\ adm[c].seen.v.result.attempts <= 3
      /\ (\A k \in DOMAIN adm[c].seen.v.outcomes :
            adm[c].seen.v.outcomes[k] = "raises")
           => /\ adm[c].seen.v.result.value.routing = "ARCHIVE"
              /\ adm[c].seen.v.result.value.routing # "INBOX"

\* C18 witness: a call all three requests of which raised has returned.
C18_Witness ==
  \E c \in DOMAIN adm :
    /\ Classified(c)
    /\ \A k \in DOMAIN adm[c].seen.v.outcomes : adm[c].seen.v.outcomes[k] = "raises"
    /\ adm[c].seen.v.result.attempts = 3
    /\ adm[c].seen.v.result.value.routing = "ARCHIVE"


\* C19: a file whose extracted text is empty or blank gets a result of status
\* failed with the error "No text extracted", the model is not called for it,
\* and the job goes on to COMPLETED counting the file as failed: a one-file
\* job completes with successful = 0 and failed = 1.
NoText(r) == r.status = "failed" /\ r.error = Some("No text extracted")

C19_GatherStep ==
  \A w \in DOMAIN h : \A j \in DOMAIN h[w] :
    (h[w][j].pc = "init_progress" /\ h'[w][j].pc = "progress")
      => \A k \in 1..Len(h'[w][j].file_data) :
           (h'[w][j].fates[k] = "empty_text"
              /\ Resolvable(h[w][j].file_data[k], blobs))
             => /\ NoText(h'[w][j].routing_results[k])
                /\ ~h'[w][j].llm_calls[k]

C19_CollectStep ==
  \A w \in DOMAIN h : \A j \in DOMAIN h[w] :
    (h[w][j].pc = "progress" /\ h'[w][j] # h[w][j])
      => h'[w][j].pc \in {"progress", "complete"}

C19_CompleteStep ==
  \A w \in DOMAIN h : \A j \in DOMAIN h[w] :
    (/\ h[w][j].pc = "complete" /\ h'[w][j].pc = "done"
     /\ faults' = faults /\ j \in DOMAIN jobs
     /\ Len(h[w][j].results) = 1 /\ NoText(h[w][j].results[1]))
      => /\ jobs'[j].status = COMPLETED
         /\ jobs'[j].result # None
         /\ jobs'[j].result[1].total_files = 1
         /\ jobs'[j].result[1].successful = 0
         /\ jobs'[j].result[1].failed = 1
         /\ NoText(jobs'[j].result[1].results[1])

C19_NoTextFailsFileNotJob ==
  [][C19_GatherStep /\ C19_CollectStep /\ C19_CompleteStep]_vars

\* C19 witness: a one-file job whose text came out empty is COMPLETED with
\* successful = 0 and failed = 1, and the model was not called.
C19_Witness ==
  \E w \in DOMAIN h : \E j \in DOMAIN h[w] \cap DOMAIN jobs :
    /\ h[w][j].pc = "done"
    /\ h[w][j].fates = <<"empty_text">>
    /\ h[w][j].llm_calls = <<FALSE>>
    /\ jobs[j].status = COMPLETED
    /\ jobs[j].result # None
    /\ jobs[j].result[1].successful = 0
    /\ jobs[j].result[1].failed = 1
    /\ NoText(jobs[j].result[1].results[1])


\* C20: a file whose model call runs past the per-file timeout gets a result
\* of status timeout with routing ARCHIVE in a classify job and of status
\* failed in an analyze job; the handler goes on with the other files and
\* does not fail the job.
C20_GatherStep ==
  \A w \in DOMAIN h : \A j \in DOMAIN h[w] :
    (h[w][j].pc = "init_progress" /\ h'[w][j].pc = "progress")
      => \A k \in 1..Len(h'[w][j].file_data) :
           (h'[w][j].fates[k] = "llm_timeout"
              /\ Resolvable(h[w][j].file_data[k], blobs))
             => IF h'[w][j].endpoint_type = "classify"
                THEN /\ h'[w][j].routing_results[k].status = "timeout"
                     /\ h'[w][j].routing_results[k].routing = "ARCHIVE"
                ELSE h'[w][j].routing_results[k].status = "failed"

C20_TimeoutStatus == [][C20_GatherStep /\ C19_CollectStep]_vars


\* C21: where get_file_data itself raises nothing, a handler that resolves no
\* file data raises a permanent, job-fatal error: it holds no per-file result,
\* it ends without starting another attempt, and its write marks the job
\* FAILED with an error naming the cause.
NoFileDataMsg == "Job processing failed: No file data found for job"

C21_RaiseStep ==
  \A w \in DOMAIN h : \A j \in DOMAIN h[w] :
    (h[w][j].pc = "get_file_data" /\ h'[w][j].pc = "except")
      => /\ h'[w][j].exc = "no_file_data"
         /\ h'[w][j].file_data = <<>>
         /\ h'[w][j].routing_results = <<>>
         /\ h'[w][j].results = <<>>

C21_FailStep ==
  \A w \in DOMAIN h : \A j \in DOMAIN h[w] :
    (h[w][j].pc = "except" /\ h[w][j].exc = "no_file_data" /\ h'[w][j] # h[w][j])
      => /\ h'[w][j].pc = "done"
         /\ ~h'[w][j].raised
         /\ h'[w][j].results = <<>>
         /\ (faults' = faults /\ j \in DOMAIN jobs)
              => /\ jobs'[j].status = FAILED
                 /\ jobs'[j].error = Some(NoFileDataMsg)
                 /\ jobs'[j].result = jobs[j].result

C21_NoFileDataFailsJob == [][C21_RaiseStep /\ C21_FailStep]_vars

\* C22: when all N files of a job are processed and the completing write does
\* not fail, the row is COMPLETED with progress 100 and a result where
\* total_files = N, successful = the number of results of status success,
\* failed = N - successful and, for a classify job, inbox_count and
\* archive_count are the numbers of results routed INBOX and ARCHIVE.
WithStatus(results, status) == {k \in 1..Len(results) : results[k].status = status}
Routed(results, routing) == {k \in 1..Len(results) : results[k].routing = routing}

C22_Aggregated(kind, n, results, row) ==
  /\ row.status = COMPLETED
  /\ row.progress = 100
  /\ row.result # None
  /\ row.result[1].results = results
  /\ Len(results) = n
  /\ row.result[1].total_files = n
  /\ row.result[1].successful = Cardinality(WithStatus(results, "success"))
  /\ row.result[1].failed = n - Cardinality(WithStatus(results, "success"))
  /\ kind = "classify" =>
       /\ row.result[1].inbox_count = Cardinality(Routed(results, "INBOX"))
       /\ row.result[1].archive_count = Cardinality(Routed(results, "ARCHIVE"))

C22_CompletionAggregates ==
  [][\A w \in DOMAIN h : \A j \in DOMAIN h[w] :
       (/\ h[w][j].pc = "complete" /\ h'[w][j].pc = "done"
        /\ faults' = faults /\ j \in DOMAIN jobs)
         => C22_Aggregated(h[w][j].endpoint_type, Len(h[w][j].file_data),
                           h[w][j].results, jobs'[j])]_vars

\* C22 witness: a classify job of two successful files, one routed INBOX and
\* one ARCHIVE, is COMPLETED with total_files 2, successful 2, inbox_count 1
\* and archive_count 1.
C22_Witness ==
  \E w \in DOMAIN h : \E j \in DOMAIN h[w] \cap DOMAIN jobs :
    /\ h[w][j].pc = "done"
    /\ h[w][j].endpoint_type = "classify"
    /\ Len(h[w][j].results) = 2
    /\ jobs[j].status = COMPLETED /\ jobs[j].progress = 100
    /\ jobs[j].result # None
    /\ jobs[j].result[1].total_files = 2
    /\ jobs[j].result[1].successful = 2
    /\ jobs[j].result[1].failed = 0
    /\ jobs[j].result[1].inbox_count = 1
    /\ jobs[j].result[1].archive_count = 1


\* C23: a FAILED job becomes READY only by the write of a reset_failed_job
\* call; no ingestion step and no worker step moves a FAILED job to READY.
C23_FailedToReadyOnlyByReset ==
  [][\A j \in DOMAIN jobs \cap DOMAIN jobs' :
       (jobs[j].status = FAILED /\ jobs'[j].status = READY)
         => \E c \in DOMAIN adm :
              /\ adm[c].op = "reset_failed_job" /\ adm[c].job = j
              /\ adm[c].pc = "reset_write" /\ adm'[c].pc = "returned"]_vars


\* C24: a running worker loop never ends because of a job or a storage fault:
\* after its handlers ended, raised or not, it polls again, and a listing
\* that failed leaves it polling.
C24_LoopStep ==
  \A w \in DOMAIN wk :
    wk[w] \in {"poll", "gather"}
      => /\ wk'[w] \in {"poll", "gather"}
         /\ (wk[w] = "gather" /\ wk'[w] # "gather") => wk'[w] = "poll"
         /\ (wk[w] = "poll" /\ faults' # faults /\ h'[w] = h[w]) => wk'[w] = "poll"

C24_WorkerLoopSurvives == [][C24_LoopStep]_vars

\* C24 witness: the reference write of a classify job failed, the job went
\* READY all the same, its handler found no file data and ended by an
\* exception; the job is still PROCESSING, no handler is on it and the worker
\* polls again.
C24_Witness ==
  \E w \in DOMAIN wk : \E j \in DOMAIN jobs :
    /\ faults = 1
    /\ wk[w] = "poll"
    /\ \A i \in DOMAIN h[w] : h[w][i] = IdleHandler
    /\ dispatched[j] >= 1
    /\ jobs[j].endpoint_type = "classify"
    /\ jobs[j].status = PROCESSING
    /\ jobs[j].error = Some("Failed to store file data")

\* C25: update_job_status never raises to the handler: a progress write that
\* fails changes no row and the handler goes on as after a write that
\* succeeded, appending the result, to the remaining files and to the final
\* write.
C25_ProgressStep ==
  \A w \in DOMAIN h : \A j \in DOMAIN h[w] :
    (h[w][j].pc = "progress" /\ h'[w][j] # h[w][j])
      => /\ h'[w][j].results
              = Append(h[w][j].results,
                       h[w][j].routing_results[Len(h[w][j].results) + 1])
         /\ h'[w][j].pc = IF Len(h'[w][j].results) = Len(h[w][j].file_data)
                          THEN "complete" ELSE "progress"
         /\ ~h'[w][j].raised
         /\ faults' # faults => jobs' = jobs

C25_FirstWriteStep ==
  \A w \in DOMAIN h : \A j \in DOMAIN h[w] :
    (h[w][j].pc = "start" /\ h'[w][j] # h[w][j])
      => /\ h'[w][j].pc = "get_file_data"
         /\ faults' # faults => jobs' = jobs

C25_FailedWriteNeverAborts == [][C25_ProgressStep /\ C25_FirstWriteStep]_vars

\* C25 witness: the only storage failure was the progress write of a one-file
\* job (processed_files stayed 0), and the job is COMPLETED with its result.
C25_Witness ==
  \E w \in DOMAIN h : \E j \in DOMAIN h[w] \cap DOMAIN jobs :
    /\ faults = 1
    /\ h[w][j].pc = "done"
    /\ Len(h[w][j].results) = 1
    /\ h[w][j].results[1].status = "success"
    /\ jobs[j].status = COMPLETED
    /\ jobs[j].result # None
    /\ jobs[j].result[1].total_files = 1
    /\ jobs[j].processed_files = 0


\* C26: the model calls of one job that are in flight never exceed the job's
\* cap, which is 5 for at most 10 files, 8 for 11 to 20 files and 12 for more.
C26_CapOf(n) == CASE n <= 10 -> 5 [] n >= 11 /\ n <= 20 -> 8 [] n > 20 -> 12

C26_InFlightWithinCap ==
  \A w \in DOMAIN h : \A j \in DOMAIN h[w] :
    h[w][j].pc = "gather_files"
      => /\ h[w][j].semaphore.in_flight <= C26_CapOf(h[w][j].semaphore.files)
         /\ h[w][j].semaphore.in_flight + h[w][j].semaphore.value
              = C26_CapOf(h[w][j].semaphore.files)

\* C26 witness: a job of 11 files has 8 calls in flight and files waiting
\* for a permit.
C26_Witness ==
  \E w \in DOMAIN h : \E j \in DOMAIN h[w] :
    /\ h[w][j].pc = "gather_files"
    /\ h[w][j].semaphore.files = 11
    /\ h[w][j].semaphore.in_flight = 8
    /\ h[w][j].semaphore.value = 0
    /\ h[w][j].semaphore.pending > 0


\* C27: in one poll cycle a worker lists at most 10 READY jobs and creates
\* handlers for at most 3 of them, the oldest, the analyze handler for a job
\* of endpoint_type analyze and the classify handler otherwise; the poll
\* changes no row, so the jobs it did not dispatch stay READY; the next poll
\* comes only after every handler has ended, so a worker never has more than
\* 3 handlers.
Handlers(hs) == {j \in DOMAIN hs : hs[j].pc # "idle"}

C27_AtMostThreeHandlers ==
  \A w \in DOMAIN h :
    /\ Cardinality(Handlers(h[w])) <= 3
    /\ wk[w] = "poll" => Handlers(h[w]) = {}

C27_PollStep ==
  \A w \in DOMAIN h :
    (wk[w] = "poll" /\ wk'[w] = "gather")
      => /\ jobs' = jobs
         /\ Len(get_pending_jobs(jobs, PollLimit, TRUE)) <= 10
         /\ Handlers(h'[w]) \subseteq Range(get_pending_jobs(jobs, PollLimit, TRUE))
         /\ Cardinality(Handlers(h'[w])) <= 3
         /\ \A j \in Handlers(h'[w]) :
              /\ jobs[j].status = READY
              /\ h'[w][j].pc = "start"
              /\ h'[w][j].endpoint_type =
                   IF jobs[j].endpoint_type = "analyze" THEN "analyze" ELSE "classify"
              /\ \A i \in DOMAIN jobs \ Handlers(h'[w]) :
                   jobs[i].status = READY => jobs[j].created_at <= jobs[i].created_at

C27_GatherStep ==
  \A w \in DOMAIN h :
    (wk[w] = "gather" /\ wk'[w] = "poll")
      => \A j \in DOMAIN h[w] : h[w][j].pc \in {"idle", "done"}

C27_BoundedDispatch ==
  []C27_AtMostThreeHandlers /\ [][C27_PollStep /\ C27_GatherStep]_vars

\* C27 witness: of 11 READY jobs the worker runs the handlers of three, of
\* both kinds, and the other eight are READY.
C27_Witness ==
  \E w \in DOMAIN h :
    /\ wk[w] = "gather"
    /\ Cardinality(Handlers(h[w])) = 3
    /\ \E j \in Handlers(h[w]) : h[w][j].endpoint_type = "analyze"
    /\ \E j \in Handlers(h[w]) : h[w][j].endpoint_type = "classify"
    /\ Cardinality({j \in DOMAIN jobs : jobs[j].status = READY}) = 8
    /\ Cardinality(DOMAIN jobs) = 11


\* C28: a handler that caught a transient error with retries remaining, and
\* whose write does not fail, puts the job from PROCESSING back to READY with
\* the error cleared and starts over with the retry counter incremented.
C28_TransientDemotesToReady ==
  [][\A w \in DOMAIN h : \A j \in DOMAIN h[w] \cap DOMAIN jobs :
       (/\ h[w][j].pc = "except" /\ h[w][j].exc = "transient"
        /\ h[w][j].retry_count < max_retries
        /\ h'[w][j] # h[w][j] /\ faults' = faults
        /\ jobs[j].status = PROCESSING)
         => /\ jobs'[j].status = READY
            /\ jobs'[j].error = None
            /\ h'[w][j].pc = "start"
            /\ h'[w][j].retry_count = h[w][j].retry_count + 1]_vars


\* C29: a handler of either kind that got no file data, and has attempts
\* left, calls get_file_data again instead of raising, so that a job whose
\* references become readable within the attempts is processed.
C29_ResolutionRetried ==
  [][\A w \in DOMAIN h : \A j \in DOMAIN h[w] :
       (/\ h[w][j].pc = "get_file_data"
        /\ h[w][j].attempt < max_file_data_retries
        /\ h'[w][j] # h[w][j])
         => \/ h'[w][j].pc = "init_progress"
            \/ /\ h'[w][j].pc = "get_file_data"
               /\ h'[w][j].attempt = h[w][j].attempt + 1]_vars


\* C30: a full-metadata column that is present but decodes to no non-empty
\* list (corrupt text, text that decodes to a string, an empty list) counts
\* as absent: get_file_data goes on to the simple-locator column and then to
\* the legacy column, and returns nothing only when none of the three columns
\* yields a non-empty list.
FullUndecodable(j) ==
  \/ ing[j].stored_as \in {"corrupt", "double"}
  \/ ing[j].stored_as \in {"native", "json"} /\ ing[j].file_urls = <<>>

C30_FallsThroughUndecodable ==
  \A c \in DOMAIN adm :
    Returned(c) =>
      /\ (FullUndecodable(adm[c].job) /\ SimplePopulated(adm[c].job)) =>
           /\ adm[c].seen.t = "list"
           /\ Len(adm[c].seen.v) = Len(SimplePathsStored)
           /\ \A k \in 1..Len(SimplePathsStored) :
                adm[c].seen.v[k].v[Chars_file_path] = SimplePathsStored[k]
      /\ (FullUndecodable(adm[c].job) /\ ~SimplePopulated(adm[c].job)
          /\ LegacyPopulated(adm[c].job)) => adm[c].seen = PyList(LegacyRefs)
      /\ adm[c].seen = PyNone =>
           /\ ~FullPopulated(adm[c].job)
           /\ ~SimplePopulated(adm[c].job)
           /\ ~LegacyPopulated(adm[c].job)

\* C30 witness: the full metadata is corrupt text, the simple-locator column
\* yields nothing, and the call returned the references of the legacy column.
C30_Witness ==
  \E c \in DOMAIN adm :
    /\ Returned(c)
    /\ ing[adm[c].job].stored_as = "corrupt"
    /\ jobs[adm[c].job].file_storage_urls = PyStr(CorruptText)
    /\ ~SimplePopulated(adm[c].job)
    /\ LegacyPopulated(adm[c].job)
    /\ adm[c].seen = PyList(LegacyRefs)


\* C31: a job left PROCESSING by a worker that stopped mid-job stays as it is:
\* while the row is PROCESSING and no handler runs for it, no step changes the
\* row, and the row goes only at the DELETE of a delete_job call; in every row
\* processed_files <= total_files.
Stuck(j) ==
  /\ j \in DOMAIN jobs
  /\ jobs[j].status = PROCESSING
  /\ dispatched[j] >= 1
  /\ \A w \in Workers : ~Running(h[w][j])

C31_CountersConsistent ==
  \A j \in DOMAIN jobs : jobs[j].processed_files <= jobs[j].total_files

C31_StuckStep ==
  \A j \in JobIds :
    Stuck(j) =>
      \/ j \in DOMAIN jobs' /\ jobs'[j] = jobs[j]
      \/ /\ j \notin DOMAIN jobs'
         /\ \E c \in DOMAIN adm :
              /\ adm[c].op = "delete_job" /\ adm[c].job = j
              /\ adm[c].pc = "delete_row" /\ adm'[c].pc = "returned"

C31_StuckStaysProcessing == []C31_CountersConsistent /\ [][C31_StuckStep]_vars


\* C32: the progress stored in a PROCESSING row is
\* floor(processed_files * 100 / total_files) of the row's own counters, lies
\* in 0..100 and is 100 exactly when processed_files = total_files.
C32_ProgressFromRowCounters ==
  \A j \in DOMAIN jobs :
    jobs[j].status = PROCESSING =>
      /\ jobs[j].progress = (jobs[j].processed_files * 100) \div jobs[j].total_files
      /\ jobs[j].progress \in 0..100
      /\ jobs[j].progress = 100 <=> jobs[j].processed_files = jobs[j].total_files


\* C33: when the processing of a file has ended, on any path, the temporary
\* file created for it is gone from the worker's disk, unless os.remove itself
\* raised; so after the last file of a job none of its temporary files is left.
C33_TempFilesRemoved ==
  \A w \in DOMAIN h : \A j \in DOMAIN h[w] : \A k \in DOMAIN h[w][j].tasks :
    (h[w][j].tasks[k].pc = "returned" /\ ~h[w][j].tasks[k].remove_raised)
      => ~h[w][j].tasks[k].on_disk


\* C34: a COMPLETED row keeps its status, result and progress in every step
\* that does not delete the row.
C34_CompletedStep ==
  \A j \in DOMAIN jobs :
    (jobs[j].status = COMPLETED /\ j \in DOMAIN jobs') =>
      /\ jobs'[j].status = COMPLETED
      /\ jobs'[j].result = jobs[j].result
      /\ jobs'[j].progress = jobs[j].progress

C34_CompletedIsFinal == [][C34_CompletedStep]_vars


\* C35: the write of a reset_failed_job call changes the row only when the
\* row is FAILED at that moment; a PROCESSING or COMPLETED row is never moved
\* to READY by it and keeps its counters.
C35_ResetWriteStep ==
  \A c \in DOMAIN adm :
    (/\ adm[c].op = "reset_failed_job"
     /\ adm[c].pc = "reset_write"
     /\ adm'[c].pc = "returned"
     /\ adm[c].job \in DOMAIN jobs
     /\ jobs[adm[c].job].status # FAILED) => jobs' = jobs

C35_ResetWritesOnlyFailed == [][C35_ResetWriteStep]_vars


\* C36: once delete_job has removed the row of a job, no step brings the row
\* back: the writes of a handler still processing the job and of the ingestion
\* request change nothing, get_job finds no row, get_pending_jobs does not
\* list the job and no poll starts a handler for it.
Deleted(j) == j <= nextId /\ j \notin DOMAIN jobs

C36_DeletedStep ==
  \A j \in JobIds :
    Deleted(j) =>
      /\ j \notin DOMAIN jobs'
      /\ get_job(jobs', j, None, TRUE) = None
      /\ \A k \in DOMAIN get_pending_jobs(jobs', PollLimit, TRUE) :
           get_pending_jobs(jobs', PollLimit, TRUE)[k] # j
      /\ \A w \in DOMAIN h :
           (j \in DOMAIN h[w] /\ ~Running(h[w][j])) => ~Running(h'[w][j])

C36_DeletedRowStaysDeleted == [][C36_DeletedStep]_vars

\* C36 witness: the row of a job is gone after a delete_job call returned
\* true, the ingestion request has made its last write, and a handler of the
\* job has gathered its files and made its COMPLETED write.
C36_Witness ==
  \E j \in JobIds, w \in Workers, c \in DOMAIN adm :
    /\ Deleted(j)
    /\ adm[c].op = "delete_job" /\ adm[c].job = j
    /\ adm[c].pc = "returned" /\ adm[c].ret = "True"
    /\ ing[j].pc = "done"
    /\ h[w][j].pc = "done" /\ ~h[w][j].raised
    /\ h[w][j].results # <<>>
    /\ Len(h[w][j].results) = Len(h[w][j].file_data)


\* C37: a call of update_job_status sets the status and those of result,
\* error, progress and processed_files that it is given; a field given as None
\* keeps its stored value, and every other column of the row is left alone. A
\* call with error = None, a COMPLETED write included, keeps a stored error.
KeptOrGiven(given, stored) == IF given = None THEN stored ELSE given[1]

C37_UpdateStep ==
  \A c \in DOMAIN adm :
    (adm[c].pc = "idle" /\ adm'[c].op = "update_job_status") =>
      LET j == adm'[c].job
          given == adm'[c].seen.v
      IN
      IF j \in DOMAIN jobs /\ adm'[c].ret = "None"
      THEN /\ DOMAIN jobs' = DOMAIN jobs
           /\ \A k \in DOMAIN jobs \ {j} : jobs'[k] = jobs[k]
           /\ jobs'[j] =
                [jobs[j] EXCEPT
                   !.status = given.status,
                   !.result = IF given.result = None THEN @ ELSE given.result,
                   !.error = IF given.error = None THEN @ ELSE given.error,
                   !.progress = KeptOrGiven(given.progress, @),
                   !.processed_files = KeptOrGiven(given.processed_files, @)]
      ELSE jobs' = jobs

C37_UpdateWritesOnlyGivenFields == [][C37_UpdateStep]_vars

\* C37 witness: a row with a stored error and a stored result was written
\* COMPLETED with progress 0 and no error, result or processed_files given:
\* the status and the progress are the given ones, the rest is as stored.
C37_Witness ==
  \E c \in DOMAIN adm :
    /\ adm[c].op = "update_job_status" /\ adm[c].pc = "returned"
    /\ adm[c].ret = "None"
    /\ adm[c].seen.v.status = COMPLETED
    /\ adm[c].seen.v.error = None /\ adm[c].seen.v.result = None
    /\ adm[c].seen.v.progress = Some(0)
    /\ adm[c].seen.v.processed_files = None
    /\ adm[c].job \in DOMAIN jobs
    /\ jobs[adm[c].job].status = COMPLETED
    /\ jobs[adm[c].job].error = Some("Job processing failed")
    /\ jobs[adm[c].job].result # None
    /\ jobs[adm[c].job].progress = 0
    /\ jobs[adm[c].job].processed_files = 1


\* C38: the results a handler has collected for a job hold one entry for each
\* file reference, in the order of the references: entry i carries the
\* filename and the outcome of reference i, in whatever order the files
\* finished.
C38_ResultsInReferenceOrder ==
  \A w \in DOMAIN h : \A j \in DOMAIN h[w] :
    (h[w][j].pc = "complete" /\ h[w][j].tasks # <<>>) =>
      /\ Len(h[w][j].results) = Len(h[w][j].tasks)
      /\ \A i \in DOMAIN h[w][j].tasks :
           /\ h[w][j].results[i].filename = h[w][j].tasks[i].filename
           /\ h[w][j].results[i].status = h[w][j].tasks[i].status

\* C38 witness: two files were collected, the second of which finished first,
\* one of them successfully and the other not.
C38_Witness ==
  \E w \in DOMAIN h : \E j \in DOMAIN h[w] :
    /\ h[w][j].pc = "complete"
    /\ Len(h[w][j].tasks) = 2
    /\ h[w][j].tasks[2].finished_at = 1
    /\ h[w][j].tasks[1].finished_at = 2
    /\ h[w][j].tasks[1].status = "success"
    /\ h[w][j].tasks[2].status = "error"
    /\ Len(h[w][j].results) = 2


\* C39: in the result of a completed classify job every entry whose status is
\* not success is routed to ARCHIVE, inbox_count is at most successful, and
\* inbox_count + archive_count is at most total_files.
C39_NonSuccessArchived ==
  \A j \in DOMAIN jobs :
    (/\ jobs[j].endpoint_type = "classify"
     /\ jobs[j].status = COMPLETED
     /\ jobs[j].result # None) =>
      LET final == jobs[j].result[1] IN
      /\ \A k \in DOMAIN final.results :
           final.results[k].status # "success" => final.results[k].routing = "ARCHIVE"
      /\ final.inbox_count <= final.successful
      /\ final.inbox_count + final.archive_count <= final.total_files

\* C39 witness: a classify job completed with one file routed to INBOX and one
\* file that ended in an error.
C39_Witness ==
  \E j \in DOMAIN jobs :
    /\ jobs[j].endpoint_type = "classify"
    /\ jobs[j].status = COMPLETED
    /\ jobs[j].result # None
    /\ jobs[j].result[1].total_files = 2
    /\ jobs[j].result[1].successful = 1
    /\ jobs[j].result[1].inbox_count = 1
    /\ jobs[j].result[1].archive_count = 1
    /\ \E k \in DOMAIN jobs[j].result[1].results :
         /\ jobs[j].result[1].results[k].status = "error"
         /\ jobs[j].result[1].results[k].routing = "ARCHIVE"


\* C40: two files of one request that were stored in the bucket under
\* different original filenames have different storage paths, and the object
\* at the path of each reference is the file the reference was written for.
InBucket(ref) == ~HasLiteral(ref.v[Chars_file_path].v, 1, TempDir)

C40_DistinctNamesDistinctLocators ==
  \A j \in DOMAIN ing :
    \A a \in DOMAIN ing[j].file_urls : \A b \in DOMAIN ing[j].file_urls :
      LET refs == ing[j].file_urls IN
      (/\ a # b /\ InBucket(refs[a]) /\ InBucket(refs[b])
       /\ refs[a].v[Chars_filename] # refs[b].v[Chars_filename]) =>
        /\ refs[a].v[Chars_file_path] # refs[b].v[Chars_file_path]
        /\ blobs[refs[a].v[Chars_file_path].v] = <<j, a>>

====
